---- MODULE Spec2Model ----
(***************************************************************************)
(* The forecasting engine of neural-ads-ctv: the data loader's aggregate   *)
(* index (server/data_loader.py) and the real-data forecasting agent       *)
(* (server/agents/real_data_forecasting_agent.py).                         *)
(*                                                                         *)
(* Numbers.  A Python float is modelled as a rational <<n, d>> in lowest   *)
(* terms with d > 0.  Every float operation of the code is an exact        *)
(* rational operation followed by Fl, the rounding to the float format:    *)
(* with mantissa = 0 Fl is the identity (the arithmetic "over rationals"   *)
(* the specification reasons in), with mantissa = p > 0 Fl rounds to p     *)
(* significant bits, ties to even, as IEEE-754 does at p = 53.  Python     *)
(* ints (inventory counts, record counts, week counts) are integers.       *)
(***************************************************************************)
EXTENDS Integers, Sequences, FiniteSets, TLC

VARIABLES
    disk,       \* the two tables under data/real_data, as read by pandas
    loader,     \* data_loader._real_data_loader: None or the RealDataLoader
    agent,      \* RealDataForecastingAgent.data_loader after __init__
    mantissa,   \* significant bits of a float; 0 = exact rationals
    last,       \* the last call made on the engine and what it returned
    loads,      \* RealDataLoader objects made so far; each is loaded once, when made
    observed,   \* the loader objects (by number) that get_real_data_loader has returned
    orch,       \* main.orchestrator, the MultiAgentOrchestrator
    tasks,      \* the requests in flight on the event loop, by task
    now,        \* time.time(), in ticks
    accepted,   \* when advance_step last passed its debounce, and whether a reset followed
    response    \* the outcome of the process_step that finished last

engine == <<disk, loader, agent, mantissa, last>>
index == <<loads, observed>>
workflow == <<orch, tasks, now, accepted, response>>
vars == <<disk, loader, agent, mantissa, last, loads, observed, orch, tasks, now, accepted,
          response>>

\* An optional value: Python's None is the empty tuple, a value x is <<x>>.
None == << >>
Some(x) == <<x>>

\* LET x == e IN F(x), with e evaluated once and x bound to its value
With(e, F(_)) == CHOOSE r \in { F(x) : x \in {e} } : TRUE

(***************************************************************************)
(* Rational arithmetic.                                                    *)
(***************************************************************************)
Abs(x) == IF x < 0 THEN -x ELSE x

RECURSIVE Gcd(_, _)
Gcd(a, b) == IF b = 0 THEN a ELSE Gcd(b, a % b)

Rat(n, d) == LET g == Gcd(Abs(n), d) IN <<n \div g, d \div g>>

OfInt(n) == <<n, 1>>

RNeg(a) == <<-a[1], a[2]>>

RAdd(a, b) ==
    LET g == Gcd(a[2], b[2])
    IN  Rat(a[1] * (b[2] \div g) + b[1] * (a[2] \div g), (a[2] \div g) * b[2])

RSub(a, b) == RAdd(a, RNeg(b))

RMul(a, b) ==
    LET g1 == Gcd(Abs(a[1]), b[2])
        g2 == Gcd(Abs(b[1]), a[2])
    IN  Rat((a[1] \div g1) * (b[1] \div g2), (a[2] \div g2) * (b[2] \div g1))

RInv(b) == IF b[1] < 0 THEN <<-b[2], -b[1]>> ELSE <<b[2], b[1]>>

RDiv(a, b) == RMul(a, RInv(b))

RLe(a, b) ==
    LET g == Gcd(a[2], b[2])
    IN  a[1] * (b[2] \div g) <= b[1] * (a[2] \div g)

RLt(a, b) == ~RLe(b, a)

RMin(a, b) == IF RLe(a, b) THEN a ELSE b   \* Python min(a, b)

RMax(a, b) == IF RLt(a, b) THEN b ELSE a   \* Python max(a, b)

PyInt(a) == IF a[1] >= 0 THEN a[1] \div a[2] ELSE -((-a[1]) \div a[2])

(***************************************************************************)
(* Rounding a positive rational n/d to p significant bits, ties to even:   *)
(* with e the exponent of n/d (2^e <= n/d < 2^(e+1)), scale by 2^(p-1-e),  *)
(* round the quotient to an integer, scale back.                           *)
(***************************************************************************)
\* n >= 2^k * d, without forming the product
AtLeastPow2(n, d, k) ==
    IF k >= 0 THEN n \div 2^k >= d
    ELSE n >= (d \div 2^(-k)) + (IF d % 2^(-k) = 0 THEN 0 ELSE 1)

\* the number of binary digits of x >= 1, known to lie in lo..hi
RECURSIVE BitLength(_, _, _)
BitLength(x, lo, hi) ==
    IF lo = hi THEN lo
    ELSE IF x < 2^((lo + hi) \div 2) THEN BitLength(x, lo, (lo + hi) \div 2)
    ELSE BitLength(x, ((lo + hi) \div 2) + 1, hi)

\* the e with 2^e <= n/d < 2^(e+1)
Exponent(n, d) ==
    LET e0 == BitLength(n, 1, 31) - BitLength(d, 1, 31)
    IN  IF AtLeastPow2(n, d, e0) THEN e0 ELSE e0 - 1

\* the largest a in lo..hi with 2^a dividing d
RECURSIVE TwosIn(_, _, _)
TwosIn(d, lo, hi) ==
    IF lo = hi THEN lo
    ELSE IF d % 2^((lo + hi + 1) \div 2) = 0 THEN TwosIn(d, (lo + hi + 1) \div 2, hi)
    ELSE TwosIn(d, lo, ((lo + hi + 1) \div 2) - 1)

RoundPos(n, d, e, p) ==
    LET s == p - 1 - e
        a == IF s > 0 THEN TwosIn(d, 0, IF s < 30 THEN s ELSE 30) ELSE 0
        N == IF s > 0 THEN n * 2^(s - a) ELSE n
        D == IF s > 0 THEN d \div 2^a ELSE d * 2^(-s)
        q == N \div D
        r == N % D
        m == IF 2 * r < D THEN q
             ELSE IF 2 * r > D THEN q + 1
             ELSE IF q % 2 = 0 THEN q ELSE q + 1
    IN  IF s <= 0 THEN Rat(m * 2^(-s), 1) ELSE Rat(m, 2^s)

RoundTo(x, p) ==
    IF x[1] = 0 THEN x
    ELSE IF x[1] < 0 THEN RNeg(RoundPos(-x[1], x[2], Exponent(-x[1], x[2]), p))
    ELSE RoundPos(x[1], x[2], Exponent(x[1], x[2]), p)

Fl(x) == IF mantissa = 0 THEN x ELSE RoundTo(x, mantissa)

\* a float literal of the source
Lit(n, d) == Fl(Rat(n, d))
\* an int converted to float: exact, as it is in a double for every int below 2^53
ToFloat(n) == OfInt(n)

FAdd(a, b) == Fl(RAdd(a, b))
FSub(a, b) == Fl(RSub(a, b))
FMul(a, b) == Fl(RMul(a, b))
FDiv(a, b) == Fl(RDiv(a, b))

\* Python sum(xs): a left fold from the int 0
RECURSIVE FSumFrom(_, _, _)
FSumFrom(xs, i, acc) ==
    IF i > Len(xs) THEN acc ELSE FSumFrom(xs, i + 1, FAdd(acc, xs[i]))

FSum(xs) == FSumFrom(xs, 1, OfInt(0))

(***************************************************************************)
(* Outcomes of a call: a returned value, or the exception it raised.       *)
(***************************************************************************)
NoExc == "none"
Ok(v) == [exc |-> NoExc, val |-> v]
Raise(e) == [exc |-> e, val |-> None]

(***************************************************************************)
(* The tables on disk.  A fill row is a parsed line of day_fill.csv        *)
(* (field_combination "type:value", request_count, fill_rate), an avails   *)
(* row a parsed line of all_avails.csv (Category_Value "type:value",       *)
(* Count).  Absent stands for a file that does not exist.                  *)
(***************************************************************************)
Absent == None

FillRow(t, v, rc, fr) ==
    [targeting_type |-> t, targeting_value |-> v, request_count |-> rc, fill_rate |-> fr]

AvailsRow(t, v, c) == [targeting_type |-> t, targeting_value |-> v, Count |-> c]

FillTableA ==
    << FillRow("network", "x", 1000, Rat(1, 20)),
       FillRow("network", "y", 3000, Rat(1, 5)),
       FillRow("zip", "90210", 500, Rat(1, 10)) >>

\* the zip rows carry no requests: their weighted mean is undefined
FillTableZ ==
    << FillRow("network", "x", 1000, Rat(1, 20)),
       FillRow("zip", "90210", 0, Rat(1, 10)) >>

\* no row carries a request
FillTable0 == << FillRow("network", "x", 0, Rat(1, 20)) >>

AvailsTableA ==
    << AvailsRow("network", "x", 10000),
       AvailsRow("network", "y", 30001),
       AvailsRow("zip", "90210", 2000),
       AvailsRow("genre", "drama", 5000) >>

Disks ==
    { [fill |-> Some(FillTableA), avails |-> Some(AvailsTableA)],
      [fill |-> Some(FillTableA), avails |-> Absent],
      [fill |-> Absent,           avails |-> Some(AvailsTableA)],
      [fill |-> Some(FillTableZ), avails |-> Some(AvailsTableA)],
      [fill |-> Some(FillTable0), avails |-> Some(AvailsTableA)] }

(***************************************************************************)
(* pandas / numpy helpers used by the loader.                              *)
(***************************************************************************)
\* df[col].unique(): the distinct values in order of first appearance
RECURSIVE UniqueFrom(_, _, _)
UniqueFrom(rows, i, acc) ==
    IF i > Len(rows) THEN acc
    ELSE UniqueFrom(rows, i + 1,
            IF \E j \in 1..Len(acc) : acc[j] = rows[i].targeting_type
            THEN acc ELSE Append(acc, rows[i].targeting_type))

Unique(rows) == UniqueFrom(rows, 1, << >>)

\* df[df['targeting_type'] == t]
TypeData(rows, t) == SelectSeq(rows, LAMBDA r : r.targeting_type = t)

RECURSIVE IntSumFrom(_, _, _)
IntSumFrom(xs, i, acc) ==
    IF i > Len(xs) THEN acc ELSE IntSumFrom(xs, i + 1, acc + xs[i])

IntSum(xs) == IntSumFrom(xs, 1, 0)

Column(rows, f) == [i \in 1..Len(rows) |-> rows[i][f]]

\* np.average(a, weights=w): raises when the weights sum to zero
NpAverage(a, w) ==
    LET scl == IntSum(w)
        prod == [i \in 1..Len(a) |-> FMul(a[i], ToFloat(w[i]))]
    IN  IF scl = 0 THEN Raise("ZeroDivisionError")
        ELSE Ok(FDiv(FSum(prod), ToFloat(scl)))

\* np.mean / Series.mean of a non-empty list of floats
NpMean(a) == FDiv(FSum(a), ToFloat(Len(a)))

RECURSIVE SeqMinFrom(_, _, _)
SeqMinFrom(xs, i, acc) ==
    IF i > Len(xs) THEN acc ELSE SeqMinFrom(xs, i + 1, RMin(acc, xs[i]))

RECURSIVE SeqMaxFrom(_, _, _)
SeqMaxFrom(xs, i, acc) ==
    IF i > Len(xs) THEN acc ELSE SeqMaxFrom(xs, i + 1, RMax(acc, xs[i]))

\* dict(zip(keys, vals)): a later row overwrites an earlier one with the same key
DictZip(rows, f) ==
    [v \in {rows[i].targeting_value : i \in 1..Len(rows)} |->
        LET i == CHOOSE k \in 1..Len(rows) :
                    /\ rows[k].targeting_value = v
                    /\ \A j \in (k + 1)..Len(rows) : rows[j].targeting_value # v
        IN  rows[i][f]]

(***************************************************************************)
(* RealDataLoader._process_fill_rates: one aggregate per targeting type,   *)
(* in order of first appearance; an exception leaves the aggregates built  *)
(* so far in place.                                                        *)
(***************************************************************************)
FillAggregate(type_data) ==
    LET rates == Column(type_data, "fill_rate")
    IN  With(NpAverage(rates, Column(type_data, "request_count")), LAMBDA w :
        IF w.exc # NoExc THEN w
        ELSE Ok([avg_fill_rate      |-> NpMean(rates),
                 weighted_fill_rate |-> w.val,
                 total_requests     |-> IntSum(Column(type_data, "request_count")),
                 records_count      |-> Len(type_data),
                 fill_rate_range    |-> <<SeqMinFrom(rates, 2, rates[1]),
                                          SeqMaxFrom(rates, 2, rates[1])>>,
                 by_value           |-> DictZip(type_data, "fill_rate")]))

RECURSIVE ProcessFillRatesFrom(_, _, _, _)
ProcessFillRatesFrom(fill_data, types, i, acc) ==
    IF i > Len(types) THEN [exc |-> NoExc, map |-> acc]
    ELSE With(FillAggregate(TypeData(fill_data, types[i])), LAMBDA agg :
             IF agg.exc # NoExc THEN [exc |-> agg.exc, map |-> acc]
             ELSE ProcessFillRatesFrom(fill_data, types, i + 1,
                      [t \in DOMAIN acc \cup {types[i]} |->
                          IF t = types[i] THEN agg.val ELSE acc[t]]))

_process_fill_rates(fill_data) ==
    ProcessFillRatesFrom(fill_data, Unique(fill_data), 1, << >>)

(***************************************************************************)
(* RealDataLoader._process_inventory_data.                                 *)
(***************************************************************************)
InventoryAggregate(type_data) ==
    LET counts == Column(type_data, "Count")
    IN  [total_inventory |-> IntSum(counts),
         avg_per_value   |-> FDiv(ToFloat(IntSum(counts)), ToFloat(Len(counts))),
         values_count    |-> Len(type_data),
         inventory_range |-> <<PyInt(SeqMinFrom([i \in 1..Len(counts) |-> OfInt(counts[i])], 2, OfInt(counts[1]))),
                               PyInt(SeqMaxFrom([i \in 1..Len(counts) |-> OfInt(counts[i])], 2, OfInt(counts[1])))>>,
         by_value        |-> DictZip(type_data, "Count")]

_process_inventory_data(avails_data) ==
    [t \in {avails_data[i].targeting_type : i \in 1..Len(avails_data)} |->
        InventoryAggregate(TypeData(avails_data, t))]

(***************************************************************************)
(* RealDataLoader.__init__ and load_all_data: the loader as it stands when *)
(* load_all_data returns.  The fill table is read first; a missing file    *)
(* or a failing step ends the load and keeps what was set before it.       *)
(***************************************************************************)
NoMap == << >>

RealDataLoader ==
    [fill_data |-> None, avails_data |-> None,
     _processed_fill_rates |-> NoMap, _inventory_by_category |-> NoMap]

load_all_data(d) ==
    IF d.fill = Absent THEN RealDataLoader
    ELSE IF d.avails = Absent THEN [RealDataLoader EXCEPT !.fill_data = d.fill]
    ELSE With(_process_fill_rates(d.fill[1]), LAMBDA p :
             IF p.exc # NoExc
             THEN [RealDataLoader EXCEPT !.fill_data = d.fill, !.avails_data = d.avails,
                                    !._processed_fill_rates = p.map]
             ELSE [fill_data |-> d.fill, avails_data |-> d.avails,
                   _processed_fill_rates |-> p.map,
                   _inventory_by_category |-> _process_inventory_data(d.avails[1])])

(***************************************************************************)
(* Lookups of the aggregate index.  L is the RealDataLoader; a targeting   *)
(* value is optional (None when the caller passes none).                   *)
(***************************************************************************)
\* Python truthiness of an optional string: None and "" are false
Truthy(v) == v # None /\ v[1] # ""

get_overall_fill_rate(L) ==
    IF L.fill_data = None THEN Ok(Lit(12, 100))
    ELSE NpAverage(Column(L.fill_data[1], "fill_rate"),
                   Column(L.fill_data[1], "request_count"))

get_total_inventory(L) ==
    IF L.avails_data = None THEN 1000000000
    ELSE IntSum(Column(L.avails_data[1], "Count"))

get_fill_rate_for_targeting(L, targeting_type, targeting_value) ==
    IF targeting_type \notin DOMAIN L._processed_fill_rates
    THEN get_overall_fill_rate(L)
    ELSE LET type_data == L._processed_fill_rates[targeting_type]
         IN  IF Truthy(targeting_value) /\ targeting_value[1] \in DOMAIN type_data.by_value
             THEN Ok(type_data.by_value[targeting_value[1]])
             ELSE Ok(type_data.weighted_fill_rate)

\* a fallback that keeps the whole total
WholeTotal(total_inventory) == total_inventory

\* int(total_inventory * 0.01): the share of the total an unknown type is given
OnePercent(total_inventory) == PyInt(FMul(ToFloat(total_inventory), Lit(1, 100)))

get_inventory_for_targeting(L, targeting_type, targeting_value) ==
    IF targeting_type \notin DOMAIN L._inventory_by_category
    THEN OnePercent(get_total_inventory(L))
    ELSE LET type_data == L._inventory_by_category[targeting_type]
         IN  IF Truthy(targeting_value) /\ targeting_value[1] \in DOMAIN type_data.by_value
             THEN type_data.by_value[targeting_value[1]]
             ELSE PyInt(type_data.avg_per_value)

(***************************************************************************)
(* The targeting resolver.  A criteria dict is the sequence of its items   *)
(* [type, values] in insertion order, the types distinct.                  *)
(***************************************************************************)
Item(t, vs) == [type |-> t, values |-> vs]

FirstRaised(rs) ==
    LET i == CHOOSE k \in 1..Len(rs) :
                 /\ rs[k].exc # NoExc
                 /\ \A j \in 1..(k - 1) : rs[j].exc = NoExc
    IN  rs[i]

AnyRaised(rs) == \E k \in 1..Len(rs) : rs[k].exc # NoExc

Vals(rs) == [k \in 1..Len(rs) |-> rs[k].val]

\* the fill rate one criteria item contributes, and its weight
ItemFillRate(L, item) ==
    IF item.values # << >>
    THEN With([k \in 1..Len(item.values) |->
                  get_fill_rate_for_targeting(L, item.type, Some(item.values[k]))],
              LAMBDA rs :
                  IF AnyRaised(rs) THEN FirstRaised(rs) ELSE Ok(NpMean(Vals(rs))))
    ELSE get_fill_rate_for_targeting(L, item.type, None)

\* every type weighs the same
UnitWeight(item) == 1

ItemWeight(item) == IF item.values # << >> THEN Len(item.values) ELSE 1

_calculate_combined_fill_rate(L, targeting_criteria) ==
    IF targeting_criteria = << >> THEN get_overall_fill_rate(L)
    ELSE LET weights == [k \in 1..Len(targeting_criteria) |->
                               ItemWeight(targeting_criteria[k])]
         IN  With([k \in 1..Len(targeting_criteria) |->
                      ItemFillRate(L, targeting_criteria[k])],
                  LAMBDA fill_rates :
                      IF AnyRaised(fill_rates) THEN FirstRaised(fill_rates)
                      ELSE NpAverage(Vals(fill_rates), weights))

\* the inventory one criteria item contributes
ItemInventory(L, item) ==
    IF item.values # << >>
    THEN IntSum([k \in 1..Len(item.values) |->
                    get_inventory_for_targeting(L, item.type, Some(item.values[k]))])
    ELSE IF item.type \in DOMAIN L._inventory_by_category
         THEN L._inventory_by_category[item.type].total_inventory
         ELSE get_total_inventory(L)

\* the loop of _calculate_available_inventory; min_inventory = None is float('inf')
RECURSIVE MinInventoryFrom(_, _, _, _)
MinInventoryFrom(L, targeting_criteria, k, min_inventory) ==
    IF k > Len(targeting_criteria) THEN min_inventory
    ELSE With(ItemInventory(L, targeting_criteria[k]), LAMBDA total_for_type :
             MinInventoryFrom(L, targeting_criteria, k + 1,
                 IF min_inventory = None \/ total_for_type < min_inventory[1]
                 THEN Some(total_for_type) ELSE min_inventory))

\* the contributions of the types added up
SummedInventory(L, targeting_criteria) ==
    IntSum([k \in 1..Len(targeting_criteria) |-> ItemInventory(L, targeting_criteria[k])])

_calculate_available_inventory(L, targeting_criteria) ==
    IF targeting_criteria = << >> THEN get_total_inventory(L)
    ELSE With(MinInventoryFrom(L, targeting_criteria, 1, None), LAMBDA min_inventory :
             IF min_inventory # None THEN min_inventory[1] ELSE get_total_inventory(L))

RECURSIVE SelectivityFrom(_, _, _)
SelectivityFrom(targeting_criteria, k, selectivity_multiplier) ==
    IF k > Len(targeting_criteria) THEN selectivity_multiplier
    ELSE LET item == targeting_criteria[k]
         IN  SelectivityFrom(targeting_criteria, k + 1,
                 IF item.type = "network" /\ item.values # << >>
                 THEN FMul(selectivity_multiplier, Lit(12, 10))
                 ELSE IF item.type = "zip" /\ item.values # << >>
                 THEN FMul(selectivity_multiplier, Lit(11, 10))
                 ELSE IF item.type \in {"genre", "content"} /\ item.values # << >>
                 THEN FMul(selectivity_multiplier, Lit(115, 100))
                 ELSE selectivity_multiplier)

_estimate_cpm(targeting_criteria) ==
    FMul(Lit(12, 1), SelectivityFrom(targeting_criteria, 1, Lit(1, 1)))

ItemConfidence(L, item) ==
    IF item.type \in DOMAIN L._processed_fill_rates
    THEN RMin(Lit(95, 100),
              FAdd(Lit(5, 10),
                   FDiv(ToFloat(L._processed_fill_rates[item.type].records_count),
                        ToFloat(1000))))
    ELSE Lit(6, 10)

_calculate_confidence(L, targeting_criteria) ==
    IF targeting_criteria = << >> THEN Lit(85, 100)
    ELSE NpMean([k \in 1..Len(targeting_criteria) |->
                    ItemConfidence(L, targeting_criteria[k])])

(***************************************************************************)
(* _distribute_inventory_weekly.  draws is the stream of values that       *)
(* np.random.uniform(-0.1, 0.1) returns, given by its period: iteration    *)
(* `week` draws Uniform(draws, week).                                      *)
(***************************************************************************)
Uniform(draws, week) == Fl(draws[(week % Len(draws)) + 1])

WeeklyMultiplier(week, u) ==
    LET multiplier == FAdd(FAdd(Lit(85, 100), FMul(ToFloat(week % 2), Lit(3, 10))), u)
    IN  RMax(Lit(5, 10), RMin(Lit(15, 10), multiplier))

_distribute_inventory_weekly(total_inventory, weeks, draws) ==
    With([w \in 1..weeks |-> WeeklyMultiplier(w - 1, Uniform(draws, w - 1))] \o << >>,
         LAMBDA weekly_multipliers :
    With(FSum(weekly_multipliers), LAMBDA total_multiplier :
    With([w \in 1..weeks |-> FDiv(weekly_multipliers[w], total_multiplier)] \o << >>,
         LAMBDA normalized_multipliers :
        [w \in 1..weeks |->
            FDiv(FMul(ToFloat(total_inventory), normalized_multipliers[w]),
                 ToFloat(1000000))] \o << >>)))

get_forecasting_data_for_campaign(L, targeting_criteria, budget, timeline_weeks, draws) ==
    With(_calculate_combined_fill_rate(L, targeting_criteria), LAMBDA combined_fill_rate :
    With(_calculate_available_inventory(L, targeting_criteria), LAMBDA available_inventory :
    With([k \in 1..Len(targeting_criteria) |->
             get_fill_rate_for_targeting(L, targeting_criteria[k].type, None)] \o << >>,
         LAMBDA breakdown :
        IF combined_fill_rate.exc # NoExc THEN combined_fill_rate
        ELSE IF AnyRaised(breakdown) THEN FirstRaised(breakdown)
        ELSE Ok([fill_rate_estimate     |-> combined_fill_rate.val,
                 available_inventory_mm |-> FDiv(ToFloat(available_inventory), ToFloat(1000000)),
                 estimated_cpm          |-> _estimate_cpm(targeting_criteria),
                 confidence_score       |-> _calculate_confidence(L, targeting_criteria),
                 weekly_distribution    |-> _distribute_inventory_weekly(
                                                available_inventory, timeline_weeks, draws),
                 targeting_breakdown    |->
                     [k \in 1..Len(targeting_criteria) |->
                         [type      |-> targeting_criteria[k].type,
                          fill_rate |-> breakdown[k].val,
                          inventory |-> get_inventory_for_targeting(
                                            L, targeting_criteria[k].type, None)]]]))))

(***************************************************************************)
(* Strings that the code parses are sequences of one-character strings.    *)
(***************************************************************************)
Upper == << "A", "B", "C", "D", "E", "F", "G", "H", "I", "J", "K", "L", "M",
            "N", "O", "P", "Q", "R", "S", "T", "U", "V", "W", "X", "Y", "Z" >>
Lower == << "a", "b", "c", "d", "e", "f", "g", "h", "i", "j", "k", "l", "m",
            "n", "o", "p", "q", "r", "s", "t", "u", "v", "w", "x", "y", "z" >>
Digits == << "0", "1", "2", "3", "4", "5", "6", "7", "8", "9" >>

LowerChar(c) ==
    IF \E i \in 1..26 : Upper[i] = c
    THEN Lower[CHOOSE i \in 1..26 : Upper[i] = c] ELSE c

StrLower(str) == [i \in 1..Len(str) |-> LowerChar(str[i])]

\* sub in str
Contains(str, sub) ==
    \E i \in 0..(Len(str) - Len(sub)) : \A j \in 1..Len(sub) : str[i + j] = sub[j]

IsDigit(c) == \E i \in 1..10 : Digits[i] = c
DigitVal(c) == (CHOOSE i \in 1..10 : Digits[i] = c) - 1

\* int(re.findall(r'\d+', str)[0]): the first maximal run of digits, as a number
RECURSIVE RunValue(_, _, _)
RunValue(str, i, acc) ==
    IF i > Len(str) \/ ~IsDigit(str[i]) THEN acc
    ELSE RunValue(str, i + 1, 10 * acc + DigitVal(str[i]))

HasNumber(str) == \E i \in 1..Len(str) : IsDigit(str[i])

FirstNumber(str) ==
    LET i == CHOOSE k \in 1..Len(str) :
                 IsDigit(str[k]) /\ \A j \in 1..(k - 1) : ~IsDigit(str[j])
    IN  RunValue(str, i, 0)

_parse_timeline_to_weeks(timeline) ==
    LET timeline_lower == StrLower(timeline)
    IN  IF Contains(timeline_lower, <<"w", "e", "e", "k">>) /\ HasNumber(timeline_lower)
        THEN FirstNumber(timeline_lower)
        ELSE 4

(***************************************************************************)
(* RealDataForecastingAgent.  A is the agent, L the loader it refers to.   *)
(***************************************************************************)
_generate_mock_forecasting_info(weeks) ==
    [fill_rate_estimate     |-> Lit(12, 100),
     available_inventory_mm |-> Lit(500, 1),
     estimated_cpm          |-> Lit(15, 1),
     confidence_score       |-> Lit(75, 100),
     weekly_distribution    |-> [w \in 1..weeks |-> Lit(125, 1)] \o << >>,
     targeting_breakdown    |-> << >>]

\* `path` records which branch produced the dict; it is not a key of the dict
_get_real_data_forecasting_info(A, L, targeting_criteria, budget, weeks, draws) ==
    IF A.data_loader = None \/ L.fill_data = None
    THEN [path |-> "mock", info |-> _generate_mock_forecasting_info(weeks)]
    ELSE With(get_forecasting_data_for_campaign(L, targeting_criteria, budget, weeks, draws),
              LAMBDA r :
                  IF r.exc = NoExc
                  THEN [path |-> "real", info |-> r.val]
                  ELSE [path |-> "mock_after_error",
                        info |-> _generate_mock_forecasting_info(weeks)])

(***************************************************************************)
(* Dates are proleptic Gregorian ordinals (date.toordinal()); ordinal 1 is *)
(* a Monday.  timedelta(days=n) raises OverflowError beyond MaxDeltaDays,  *)
(* datetime + timedelta beyond MaxOrdinal (datetime.max).                  *)
(***************************************************************************)
MaxOrdinal == 3652059
MaxDeltaDays == 999999999

Weekday(today) == (today - 1) % 7

CampaignDates(today, num_weeks) ==
    LET days_ahead0 == 7 - Weekday(today)
        days_ahead == IF days_ahead0 <= 0 THEN days_ahead0 + 7 ELSE days_ahead0
        start_date == today + days_ahead
        delta == (num_weeks * 7) - 1
        end_date == start_date + delta
    IN  IF Abs(delta) > MaxDeltaDays \/ start_date > MaxOrdinal
           \/ end_date > MaxOrdinal \/ end_date < 1
        THEN Raise("OverflowError")
        ELSE Ok(<<start_date, end_date>>)

\* the forecast passed on without regard to the inventory
Uncapped(forecasted_impressions_mm, total_weekly_inventory) == forecasted_impressions_mm

\* min(forecasted_impressions_mm, total_weekly_inventory): the inventory constraint
CapToInventory(forecasted_impressions_mm, total_weekly_inventory) ==
    RMin(forecasted_impressions_mm, total_weekly_inventory)

\* the effective price without a fallback: 0 when nothing is delivered
EffectiveCpmOrZero(campaign_budget, final_impressions_mm, estimated_cpm) ==
    IF RLt(OfInt(0), final_impressions_mm)
    THEN FDiv(FDiv(ToFloat(campaign_budget), final_impressions_mm), ToFloat(1000))
    ELSE OfInt(0)

\* (campaign_budget / final_impressions_mm) / 1000 if final_impressions_mm > 0
\* else estimated_cpm
EffectiveCpm(campaign_budget, final_impressions_mm, estimated_cpm) ==
    IF RLt(OfInt(0), final_impressions_mm)
    THEN FDiv(FDiv(ToFloat(campaign_budget), final_impressions_mm), ToFloat(1000))
    ELSE estimated_cpm

\* every impression counted as a unique viewer
ReachOfAll(final_impressions_mm) ==
    PyInt(FMul(final_impressions_mm, ToFloat(1000000)))

\* int(final_impressions_mm * 1_000_000 * 0.65)
EstimatedReach(final_impressions_mm) ==
    PyInt(FMul(FMul(final_impressions_mm, ToFloat(1000000)), Lit(65, 100)))

\* the impressions of _generate_campaign_forecast: the inventory of the weeks, the
\* impressions the budget asks for, and those forecast at the fill rate and capped
_generate_campaign_forecast(campaign_budget, num_weeks, real_data_info, today, campaign_timeline) ==
    LET fill_rate == real_data_info.fill_rate_estimate
        estimated_cpm == real_data_info.estimated_cpm
    IN
    With(CampaignDates(today, num_weeks), LAMBDA dates :
    IF dates.exc # NoExc THEN dates ELSE
    With(FSum(real_data_info.weekly_distribution), LAMBDA total_weekly_inventory :
    With(FMul(FDiv(ToFloat(campaign_budget), estimated_cpm), ToFloat(1000)),
         LAMBDA total_estimated_impressions :
    With(FDiv(total_estimated_impressions, ToFloat(1000000)),
         LAMBDA total_estimated_impressions_mm :
    With(FMul(total_estimated_impressions_mm, fill_rate), LAMBDA forecasted_impressions_mm :
    With(CapToInventory(forecasted_impressions_mm, total_weekly_inventory),
         LAMBDA final_impressions_mm :
    With(IF RLt(OfInt(0), total_estimated_impressions_mm)
         THEN FDiv(final_impressions_mm, total_estimated_impressions_mm)
         ELSE fill_rate,
         LAMBDA actual_fill_rate :
    With(EffectiveCpm(campaign_budget, final_impressions_mm, estimated_cpm),
         LAMBDA effective_cpm :
    With(EstimatedReach(final_impressions_mm), LAMBDA estimated_reach :
    With(IF estimated_reach > 0
         THEN FDiv(FMul(final_impressions_mm, ToFloat(1000000)), ToFloat(estimated_reach))
         ELSE Lit(1, 1),
         LAMBDA frequency :
        Ok([campaign_duration            |-> campaign_timeline,
            campaign_dates               |-> dates.val,
            total_inventory_available_mm |-> total_weekly_inventory,
            forecasted_impressions_mm    |-> final_impressions_mm,
            fill_rate_percent            |-> FMul(actual_fill_rate, ToFloat(100)),
            effective_cpm_dollars        |-> effective_cpm,
            estimated_reach              |-> estimated_reach,
            frequency                    |-> frequency])))))))))))

_calculate_performance_breakdown(campaign_forecast) ==
    [total_impressions_mm |-> campaign_forecast.forecasted_impressions_mm,
     effective_cpm        |-> campaign_forecast.effective_cpm_dollars,
     fill_rate_percent    |-> campaign_forecast.fill_rate_percent,
     estimated_reach      |-> ToFloat(campaign_forecast.estimated_reach),
     average_frequency    |-> campaign_forecast.frequency,
     inventory_utilization_percent |->
         IF RLt(OfInt(0), campaign_forecast.total_inventory_available_mm)
         THEN FMul(FDiv(campaign_forecast.forecasted_impressions_mm,
                        campaign_forecast.total_inventory_available_mm), ToFloat(100))
         ELSE OfInt(0)]

\* the data_confidence of each targeted type that the index knows, in criteria order
ConfidenceAdjustments(L, targeting_criteria) ==
    LET known == SelectSeq(targeting_criteria,
                     LAMBDA item : item.type \in DOMAIN L._processed_fill_rates)
    IN  [k \in 1..Len(known) |->
            RMin(Lit(95, 100),
                 FAdd(Lit(7, 10),
                      FDiv(ToFloat(L._processed_fill_rates[known[k].type].records_count),
                           ToFloat(1000))))]

\* the mock-data confidence without its floor
MockConfidenceUnclamped(base_confidence) == FSub(base_confidence, Lit(2, 10))

\* the branch of _calculate_real_data_confidence taken without loaded fill data
MockConfidence(base_confidence) == RMax(Lit(6, 10), FSub(base_confidence, Lit(2, 10)))

_calculate_real_data_confidence(A, L, targeting_criteria, real_data_info) ==
    LET base_confidence == real_data_info.confidence_score
    IN  IF A.data_loader = None \/ L.fill_data = None
        THEN MockConfidence(base_confidence)
        ELSE With(ConfidenceAdjustments(L, targeting_criteria) \o << >>,
                  LAMBDA confidence_adjustments :
             With(IF confidence_adjustments # << >>
                  THEN FDiv(FAdd(base_confidence, FSum(confidence_adjustments)),
                            ToFloat(1 + Len(confidence_adjustments)))
                  ELSE base_confidence,
                  LAMBDA final_confidence :
                 RMin(Lit(98, 100), RMax(Lit(6, 10), final_confidence))))

\* the pacing curve with the finish test one week late: no week is the last
PacingWeightLate(week, num_weeks) ==
    IF num_weeks <= 2 THEN Lit(1, 1)
    ELSE IF week = 0 THEN Lit(8, 10)
    ELSE IF week = num_weeks THEN Lit(9, 10)
    ELSE Lit(11, 10)

\* the weights divided by their number instead of their sum
NormalizeByCount(pacing_weights) ==
    [w \in 1..Len(pacing_weights) |->
        FDiv(pacing_weights[w], ToFloat(Len(pacing_weights)))]

\* normalized_weights = [w / total_weight for w in pacing_weights]
NormalizeWeights(pacing_weights) ==
    LET total_weight == FSum(pacing_weights)
    IN  [w \in 1..Len(pacing_weights) |-> FDiv(pacing_weights[w], total_weight)]

\* the weight of week `week` (0-based) of a campaign of num_weeks weeks
PacingWeight(week, num_weeks) ==
    IF num_weeks <= 2 THEN Lit(1, 1)
    ELSE IF week = 0 THEN Lit(8, 10)
    ELSE IF week = num_weeks - 1 THEN Lit(9, 10)
    ELSE Lit(11, 10)

_distribute_budget_weekly(total_budget, num_weeks) ==
    LET pacing_weights == [w \in 1..num_weeks |-> PacingWeight(w - 1, num_weeks)]
        normalized_weights == NormalizeWeights(pacing_weights)
    IN  [w \in 1..num_weeks |-> FMul(ToFloat(total_budget), normalized_weights[w])]

(***************************************************************************)
(* generate_forecast, with targeting_criteria given by the caller.  The    *)
(* notes and insights (formatted text) are not modelled.  `path`,          *)
(* `num_weeks` and `real_data_info` are kept beside the returned object.   *)
(* The only step that can raise is the date arithmetic that opens          *)
(* _generate_campaign_forecast; the steps before it change no state, so    *)
(* when it raises the call is that exception and nothing else.             *)
(***************************************************************************)
generate_forecast(A, L, campaign_budget, campaign_timeline, targeting_criteria, today, draws) ==
    With(_parse_timeline_to_weeks(campaign_timeline), LAMBDA num_weeks :
    With(CampaignDates(today, num_weeks), LAMBDA dates :
    IF dates.exc # NoExc THEN [exc |-> dates.exc, num_weeks |-> num_weeks] ELSE
    With(_get_real_data_forecasting_info(A, L, targeting_criteria,
                                         campaign_budget, num_weeks, draws),
         LAMBDA got :
    With(_generate_campaign_forecast(campaign_budget, num_weeks, got.info,
                                     today, campaign_timeline),
         LAMBDA campaign_forecast :
        [exc |-> NoExc,
         num_weeks |-> num_weeks,
         path |-> got.path,
         real_data_info |-> got.info,
         val |-> [campaign_total_budget |-> campaign_budget,
                  campaign_forecast     |-> campaign_forecast.val,
                  performance_breakdown |->
                      _calculate_performance_breakdown(campaign_forecast.val),
                  confidence            |-> _calculate_real_data_confidence(
                                                A, L, targeting_criteria, got.info),
                  data_source           |-> IF A.data_loader # None
                                            THEN "real_data" ELSE "mock_data",
                  targeting_breakdown   |-> got.info.targeting_breakdown]]))))

(***************************************************************************)
(* ForecastingAgent (forecasting_agent.py): the campaign-level forecast    *)
(* built from the weekly forecasts.  week_dates is the pair of the week's  *)
(* first and last day; notes (formatted text) are not modelled.            *)
(***************************************************************************)
\* round(x, ndigits): the nearest multiple of 10^-ndigits, ties to the even one
PyRound(x, ndigits) ==
    LET n == x[1] * 10^ndigits
        d == x[2]
        q == n \div d
        r == n % d
        m == IF 2 * r < d THEN q
             ELSE IF 2 * r > d THEN q + 1
             ELSE IF q % 2 = 0 THEN q ELSE q + 1
    IN  Fl(Rat(m, 10^ndigits))

WeeklyForecast(week_number, week_dates, inventory_available_mm, forecasted_impressions_mm, fill_rate_percent, ecpm_dollars) ==
    [week_number |-> week_number, week_dates |-> week_dates,
     inventory_available_mm |-> inventory_available_mm,
     forecasted_impressions_mm |-> forecasted_impressions_mm,
     fill_rate_percent |-> fill_rate_percent, ecpm_dollars |-> ecpm_dollars]

\* `not target_frequency`: no target, or the target 0.0
NoTarget(target_frequency) ==
    target_frequency = None \/ target_frequency[1] = OfInt(0)

\* adjusted_reach of _calculate_frequency_impact, for a target that is given
AdjustedReach(target_frequency, base_reach) ==
    IF RLe(Lit(3, 1), target_frequency[1]) THEN FMul(ToFloat(base_reach), Lit(85, 100))
    ELSE IF RLe(Lit(25, 10), target_frequency[1]) THEN FMul(ToFloat(base_reach), Lit(95, 100))
    ELSE FMul(ToFloat(base_reach), Lit(105, 100))

_calculate_frequency_impact(target_frequency, base_reach) ==
    IF NoTarget(target_frequency)
    THEN [reach |-> ToFloat(base_reach), frequency |-> Lit(25, 10)]
    ELSE [reach     |-> RMax(AdjustedReach(target_frequency, base_reach),
                             FMul(ToFloat(base_reach), Lit(7, 10))),
          frequency |-> Fl(target_frequency[1])]

\* sum(f.<field> for f in weekly_forecasts) / len(weekly_forecasts)
SimpleAverage(weekly_forecasts, field) ==
    FDiv(FSum(Column(weekly_forecasts, field)), ToFloat(Len(weekly_forecasts)))

\* ForecastingAgent._generate_campaign_forecast
ForecastingAgent_generate_campaign_forecast(weekly_forecasts, campaign_timeline, target_frequency) ==
    IF weekly_forecasts = << >> THEN Raise("ValueError") ELSE
    With(FSum(Column(weekly_forecasts, "inventory_available_mm")), LAMBDA total_inventory :
    With(FSum(Column(weekly_forecasts, "forecasted_impressions_mm")),
         LAMBDA total_impressions :
    With(SimpleAverage(weekly_forecasts, "fill_rate_percent"), LAMBDA avg_fill_rate :
    With(SimpleAverage(weekly_forecasts, "ecpm_dollars"), LAMBDA avg_ecpm :
    With(PyInt(FMul(FMul(total_impressions, ToFloat(1000)), Lit(6, 10))), LAMBDA reach0 :
    With(IF reach0 < 50000000 THEN reach0 ELSE 50000000, LAMBDA base_reach :
    With(_calculate_frequency_impact(target_frequency, base_reach), LAMBDA frequency_data :
        Ok([campaign_duration            |-> campaign_timeline,
            campaign_dates               |->
                << weekly_forecasts[1].week_dates[1],
                   weekly_forecasts[Len(weekly_forecasts)].week_dates[2] >>,
            total_inventory_available_mm |-> PyRound(total_inventory, 2),
            forecasted_impressions_mm    |-> PyRound(total_impressions, 2),
            fill_rate_percent            |-> PyRound(avg_fill_rate, 1),
            effective_cpm_dollars        |-> PyRound(avg_ecpm, 2),
            estimated_reach              |-> PyInt(frequency_data.reach),
            frequency                    |-> frequency_data.frequency]))))))))

_calculate_month_totals(weekly_forecasts) ==
    With(FSum(Column(weekly_forecasts, "inventory_available_mm")), LAMBDA total_inventory :
    With(FSum(Column(weekly_forecasts, "forecasted_impressions_mm")),
         LAMBDA total_impressions :
    With(IF weekly_forecasts # << >>
         THEN SimpleAverage(weekly_forecasts, "fill_rate_percent") ELSE OfInt(0),
         LAMBDA avg_fill_rate :
    With(IF weekly_forecasts # << >>
         THEN SimpleAverage(weekly_forecasts, "ecpm_dollars") ELSE OfInt(0),
         LAMBDA avg_ecpm :
        [inventory_available_mm    |-> PyRound(total_inventory, 1),
         forecasted_impressions_mm |-> PyRound(total_impressions, 1),
         avg_fill_rate_percent     |-> PyRound(avg_fill_rate, 1),
         avg_ecpm_dollars          |-> PyRound(avg_ecpm, 2)]))))

(***************************************************************************)
(* ForecastingAgent.generate_forecast: the weekly forecaster.  The         *)
(* inventory file data/inventory_availability.json is not shipped, so      *)
(* inventory_data is _generate_mock_inventory_data().  A line item is a    *)
(* dict with the keys budget, cpm, content and audience.                   *)
(***************************************************************************)
InventoryPool(weekly_availability_mm, fill_rate_range) ==
    [weekly_availability_mm |-> weekly_availability_mm, fill_rate_range |-> fill_rate_range]

_generate_mock_inventory_data(pool) ==
    IF pool = "premium_ctv"
    THEN InventoryPool(<< Lit(452, 10), Lit(481, 10), Lit(523, 10), Lit(497, 10) >>,
                       << Lit(75, 100), Lit(92, 100) >>)
    ELSE IF pool = "sports_content"
    THEN InventoryPool(<< Lit(253, 10), Lit(287, 10), Lit(312, 10), Lit(298, 10) >>,
                       << Lit(65, 100), Lit(85, 100) >>)
    ELSE InventoryPool(<< Lit(785, 10), Lit(821, 10), Lit(856, 10), Lit(803, 10) >>,
                       << Lit(85, 100), Lit(95, 100) >>)

LineItem(budget, cpm, content, audience) ==
    [budget |-> budget, cpm |-> cpm, content |-> content, audience |-> audience]

StrSports == << "s", "p", "o", "r", "t", "s" >>
StrNews == << "n", "e", "w", "s" >>
StrLocal == << "l", "o", "c", "a", "l" >>
StrCity == << "c", "i", "t", "y" >>

sports_indicators ==
    { StrSports, << "n", "f", "l" >>, << "n", "b", "a" >>, << "m", "l", "b" >>,
      << "s", "o", "c", "c", "e", "r" >> }

premium_indicators ==
    { << "p", "r", "e", "m", "i", "u", "m" >>, StrSports, StrNews, << "l", "i", "v", "e" >> }

Indicated(item, indicators) ==
    \E indicator \in indicators :
        \/ Contains(StrLower(item.content), indicator)
        \/ Contains(StrLower(item.audience), indicator)

RECURSIVE DeterminePoolFrom(_, _)
DeterminePoolFrom(line_items, k) ==
    IF k > Len(line_items) THEN "standard_ctv"
    ELSE IF Indicated(line_items[k], sports_indicators) THEN "sports_content"
    ELSE IF Indicated(line_items[k], premium_indicators) THEN "premium_ctv"
    ELSE DeterminePoolFrom(line_items, k + 1)

_determine_inventory_pool(line_items) == DeterminePoolFrom(line_items, 1)

\* weighted_cpm_sum / total_budget if total_budget > 0 else 12.0
AverageCpm(total_budget, weighted_cpm_sum) ==
    IF RLt(OfInt(0), total_budget) THEN FDiv(weighted_cpm_sum, total_budget) ELSE Lit(12, 1)

_calculate_average_cpm(line_items) ==
    AverageCpm(FSum([k \in 1..Len(line_items) |-> ToFloat(line_items[k].budget)] \o << >>),
               FSum([k \in 1..Len(line_items) |->
                        FMul(ToFloat(line_items[k].budget), line_items[k].cpm)] \o << >>))

\* a targeting dict of the weekly forecaster: the lists under networks, geo, content
Targeting(networks, geo, content) == [networks |-> networks, geo |-> geo, content |-> content]

_calculate_targeting_multiplier(targeting_criteria) ==
    IF targeting_criteria = None
       \/ targeting_criteria[1] = Targeting(<< >>, << >>, << >>) THEN Lit(1, 1)
    ELSE
    LET t == targeting_criteria[1]
        m1 == IF t.networks # << >> /\ Len(t.networks) < 5 THEN FMul(Lit(1, 1), Lit(8, 10))
              ELSE IF t.networks # << >> /\ Len(t.networks) < 10
                   THEN FMul(Lit(1, 1), Lit(9, 10))
              ELSE Lit(1, 1)
        m2 == IF t.geo # << >>
                 /\ \E g \in 1..Len(t.geo) : \/ Contains(StrLower(t.geo[g]), StrLocal)
                                             \/ Contains(StrLower(t.geo[g]), StrCity)
              THEN FMul(m1, Lit(7, 10))
              ELSE IF t.geo # << >> /\ Len(t.geo) < 5 THEN FMul(m1, Lit(85, 100))
              ELSE m1
        m3 == IF t.content # << >> /\ Len(t.content) < 3 THEN FMul(m2, Lit(9, 10)) ELSE m2
    IN  RMax(Lit(3, 10), m3)

\* the Monday after `today`, plus the weeks before week_number
WeekStart(today, week_number) == today + (7 - Weekday(today)) + (week_number - 1) * 7

\* fill_rate of _generate_weekly_forecast, from the demand pressure
WeeklyFillRate(demand_ratio, fill_rate_range) ==
    IF RLt(Lit(1, 1), demand_ratio)
    THEN RMax(Lit(3, 10), FMul(fill_rate_range[1], FDiv(Lit(1, 1), demand_ratio)))
    ELSE RMin(Lit(95, 100),
              FAdd(IF RLe(demand_ratio, Lit(5, 10)) THEN fill_rate_range[2]
                   ELSE fill_rate_range[1],
                   FMul(FSub(Lit(1, 1), demand_ratio), Lit(1, 10))))

\* weekly_availability_mm[min(week_number - 1, len(...) - 1)]
InventoryAvailable(pool_data, week_number) ==
    pool_data.weekly_availability_mm[
        (IF week_number - 1 < Len(pool_data.weekly_availability_mm) - 1
         THEN week_number - 1 ELSE Len(pool_data.weekly_availability_mm) - 1) + 1]

\* _generate_weekly_forecast from the forecasted impressions on: the eCPM and the record
WeekFromImpressions(week_number, weekly_budget, avg_cpm, inventory_available, fill_rate, forecasted_impressions_mm, today) ==
    Ok(WeeklyForecast(week_number,
                      << WeekStart(today, week_number), WeekStart(today, week_number) + 6 >>,
                      PyRound(inventory_available, 1),
                      PyRound(forecasted_impressions_mm, 1),
                      PyRound(FMul(fill_rate, ToFloat(100)), 1),
                      PyRound(IF RLt(OfInt(0), forecasted_impressions_mm)
                              THEN FDiv(FDiv(weekly_budget, forecasted_impressions_mm),
                                        ToFloat(1000))
                              ELSE avg_cpm, 2)))

\* _generate_weekly_forecast from the fill rate on
WeekFromFillRate(week_number, weekly_budget, avg_cpm, inventory_available, estimated_impressions_mm, fill_rate, today) ==
    WeekFromImpressions(week_number, weekly_budget, avg_cpm, inventory_available, fill_rate,
                        FMul(estimated_impressions_mm, fill_rate), today)

\* _generate_weekly_forecast from the estimated impressions on: the demand pressure
WeekFromEstimate(week_number, weekly_budget, avg_cpm, pool_data, inventory_available, estimated_impressions_mm, today) ==
    WeekFromFillRate(week_number, weekly_budget, avg_cpm, inventory_available,
                     estimated_impressions_mm,
                     WeeklyFillRate(IF RLt(OfInt(0), inventory_available)
                                    THEN FDiv(estimated_impressions_mm, inventory_available)
                                    ELSE Lit(1, 1),
                                    pool_data.fill_rate_range),
                     today)

\* _generate_weekly_forecast from the pool and the average CPM on
WeekFromPool(week_number, weekly_budget, avg_cpm, pool_data, today) ==
    IF avg_cpm = OfInt(0) THEN Raise("ZeroDivisionError")
    ELSE WeekFromEstimate(week_number, weekly_budget, avg_cpm, pool_data,
                          InventoryAvailable(pool_data, week_number),
                          FDiv(FMul(FDiv(weekly_budget, avg_cpm), ToFloat(1000)),
                               ToFloat(1000000)),
                          today)

_generate_weekly_forecast(week_number, weekly_budget, line_items, today) ==
    WeekFromPool(week_number, weekly_budget, _calculate_average_cpm(line_items),
                 _generate_mock_inventory_data(_determine_inventory_pool(line_items)), today)

\* _apply_parameter_adjustments from the adjusted inventory and impressions on
AdjustedWeek(forecast, inventory_multiplier, adjusted_inventory, adjusted_impressions) ==
    IF forecast.forecasted_impressions_mm = OfInt(0) THEN Raise("ZeroDivisionError")
    ELSE Ok(WeeklyForecast(
                forecast.week_number, forecast.week_dates,
                PyRound(adjusted_inventory, 2),
                PyRound(adjusted_impressions, 2),
                PyRound(RMin(FMul(FDiv(adjusted_impressions,
                                       forecast.forecasted_impressions_mm),
                                  forecast.fill_rate_percent),
                             Lit(100, 1)), 1),
                PyRound(FMul(forecast.ecpm_dollars, FSub(Lit(2, 1), inventory_multiplier)),
                        2)))

_apply_parameter_adjustments(forecast, inventory_multiplier, target_frequency) ==
    AdjustedWeek(forecast, inventory_multiplier,
                 FMul(forecast.inventory_available_mm, inventory_multiplier),
                 RMin(forecast.forecasted_impressions_mm,
                      FMul(forecast.inventory_available_mm, inventory_multiplier)))

\* the adjustments of a week's forecast, unless the forecast raised
AdjustUnlessRaised(forecast, inventory_multiplier, target_frequency) ==
    IF forecast.exc # NoExc THEN forecast
    ELSE _apply_parameter_adjustments(forecast.val, inventory_multiplier, target_frequency)

\* one pass of the loop over the weeks of generate_forecast
WeekOutcome(week_number, weekly_budget, line_items, inventory_multiplier, target_frequency, today) ==
    AdjustUnlessRaised(_generate_weekly_forecast(week_number, weekly_budget, line_items, today),
                       inventory_multiplier, target_frequency)

\* the first week that raises ends the loop
FirstRaisedOrAll(outcomes) ==
    IF \E week \in 1..Len(outcomes) : outcomes[week].exc # NoExc
    THEN outcomes[CHOOSE week \in 1..Len(outcomes) :
                     /\ outcomes[week].exc # NoExc
                     /\ \A earlier \in 1..(week - 1) : outcomes[earlier].exc = NoExc]
    ELSE Ok([week \in 1..Len(outcomes) |-> outcomes[week].val] \o << >>)

\* the loop over the weeks of generate_forecast
WeeklyLoop(weekly_budgets, line_items, inventory_multiplier, target_frequency, today) ==
    FirstRaisedOrAll([week \in 1..Len(weekly_budgets) |->
                         WeekOutcome(week, weekly_budgets[week], line_items,
                                     inventory_multiplier, target_frequency, today)] \o << >>)

\* the eCPM trend of _generate_forecasting_insights divides by the first week's eCPM
InsightsRaise(weekly_forecasts) ==
    Len(weekly_forecasts) > 1 /\ weekly_forecasts[1].ecpm_dollars = OfInt(0)

_calculate_forecast_confidence(weekly_forecasts, line_items) ==
    LET fill_rates == Column(weekly_forecasts, "fill_rate_percent")
        fill_rate_confidence ==
            RMax(Lit(5, 10),
                 FSub(Lit(1, 1),
                      FDiv(FSub(SeqMaxFrom(fill_rates, 1, fill_rates[1]),
                                SeqMinFrom(fill_rates, 1, fill_rates[1])),
                           ToFloat(100))))
        complete_line_items ==
            Cardinality({ k \in 1..Len(line_items) :
                            line_items[k].budget # 0 /\ line_items[k].cpm # OfInt(0) })
        line_item_confidence ==
            RMin(Lit(1, 1),
                 FDiv(ToFloat(complete_line_items),
                      ToFloat(IF Len(line_items) > 1 THEN Len(line_items) ELSE 1)))
        confidence_factors ==
            (IF fill_rates # << >> THEN << fill_rate_confidence >> ELSE << >>)
            \o << line_item_confidence, Lit(85, 100) >>
    IN  PyRound(FDiv(FSum(confidence_factors), ToFloat(Len(confidence_factors))), 3)

\* generate_forecast once the campaign forecast is made: insights, confidence, result
ForecastFromCampaign(weekly_forecasts, campaign_forecast, line_items, campaign_budget) ==
    IF campaign_forecast.exc # NoExc THEN campaign_forecast
    ELSE IF InsightsRaise(weekly_forecasts) THEN Raise("ZeroDivisionError")
    ELSE Ok([campaign_total_budget |-> campaign_budget,
             weekly_forecasts      |-> weekly_forecasts,
             campaign_forecast     |-> campaign_forecast.val,
             month_totals          |-> _calculate_month_totals(weekly_forecasts),
             campaign_totals       |-> _calculate_month_totals(weekly_forecasts),
             confidence            |-> _calculate_forecast_confidence(
                                           weekly_forecasts, line_items)])

\* generate_forecast once the loop over the weeks has ended
ForecastFromWeeks(weekly_forecasts, line_items, campaign_budget, campaign_timeline, target_frequency) ==
    IF weekly_forecasts.exc # NoExc THEN weekly_forecasts
    ELSE ForecastFromCampaign(
             weekly_forecasts.val,
             ForecastingAgent_generate_campaign_forecast(
                 weekly_forecasts.val, campaign_timeline, target_frequency),
             line_items, campaign_budget)

\* ForecastingAgent.generate_forecast
ForecastingAgent_generate_forecast(line_items, campaign_budget, campaign_timeline, targeting_criteria, target_frequency, today) ==
    ForecastFromWeeks(
        WeeklyLoop(_distribute_budget_weekly(
                       campaign_budget, _parse_timeline_to_weeks(campaign_timeline)) \o << >>,
                   line_items, _calculate_targeting_multiplier(targeting_criteria),
                   target_frequency, today),
        line_items, campaign_budget, campaign_timeline, target_frequency)

(***************************************************************************)
(* MultiAgentOrchestrator (agents/multi_agent_orchestrator.py) behind the  *)
(* async endpoints of main.py.  The endpoints run on one event loop:       *)
(* advance_step and reset_workflow are atomic, process_step gives up the   *)
(* loop at the two awaits of its step handler (the agent's call, then its  *)
(* generate_reasoning).  O is the orchestrator.  A task is stale when      *)
(* reset_workflow has run since its process_step began.                    *)
(***************************************************************************)
CAMPAIGN_DATA == "campaign_data"
ADVERTISER_PREFERENCES == "advertiser_preferences"
AUDIENCE_GENERATION == "audience_generation"
CAMPAIGN_GENERATION == "campaign_generation"
FORECASTING == "forecasting"
COMPLETE == "complete"

WorkflowStep ==
    { CAMPAIGN_DATA, ADVERTISER_PREFERENCES, AUDIENCE_GENERATION, CAMPAIGN_GENERATION,
      FORECASTING, COMPLETE }

\* MultiAgentOrchestrator.__init__
MultiAgentOrchestrator ==
    [current_step |-> CAMPAIGN_DATA,
     _last_advance_time |-> 0,
     _processing |-> FALSE,
     campaign_parameters |-> None,
     advertiser_preferences |-> None,
     audience_analysis |-> None,
     campaign_structure |-> None,
     forecasting_result |-> None]

\* the dict valid_transitions of _validate_step_transition; None for a missing key
valid_transitions(current) ==
    IF current = CAMPAIGN_DATA THEN Some(ADVERTISER_PREFERENCES)
    ELSE IF current = ADVERTISER_PREFERENCES THEN Some(AUDIENCE_GENERATION)
    ELSE IF current = AUDIENCE_GENERATION THEN Some(CAMPAIGN_GENERATION)
    ELSE IF current = CAMPAIGN_GENERATION THEN Some(FORECASTING)
    ELSE IF current = FORECASTING THEN Some(COMPLETE)
    ELSE None

_validate_step_transition(current, next_step) == valid_transitions(current) = Some(next_step)

\* the dict step_progression of advance_step
step_progression(current) ==
    IF current = CAMPAIGN_DATA THEN Some(ADVERTISER_PREFERENCES)
    ELSE IF current = ADVERTISER_PREFERENCES THEN Some(AUDIENCE_GENERATION)
    ELSE IF current = AUDIENCE_GENERATION THEN Some(CAMPAIGN_GENERATION)
    ELSE IF current = CAMPAIGN_GENERATION THEN Some(FORECASTING)
    ELSE IF current = FORECASTING THEN Some(COMPLETE)
    ELSE None

\* a gate that lets every step through
NoPrerequisites(O, step) == TRUE

_validate_step_prerequisites(O, step) ==
    IF step = CAMPAIGN_DATA THEN TRUE
    ELSE IF step = ADVERTISER_PREFERENCES THEN O.campaign_parameters # None
    ELSE IF step = AUDIENCE_GENERATION
    THEN O.campaign_parameters # None /\ O.advertiser_preferences # None
    ELSE IF step = CAMPAIGN_GENERATION
    THEN /\ O.campaign_parameters # None
         /\ O.advertiser_preferences # None
         /\ O.audience_analysis # None
    ELSE IF step = FORECASTING
    THEN /\ O.campaign_parameters # None
         /\ O.advertiser_preferences # None
         /\ O.campaign_structure # None
    ELSE FALSE

\* the check that opens the handler _process_<step>
HandlerPrecondition(O, step) ==
    IF step = ADVERTISER_PREFERENCES THEN O.campaign_parameters # None
    ELSE IF step = AUDIENCE_GENERATION
    THEN O.campaign_parameters # None /\ O.advertiser_preferences # None
    ELSE IF step = CAMPAIGN_GENERATION
    THEN /\ O.campaign_parameters # None
         /\ O.advertiser_preferences # None
         /\ O.audience_analysis # None
    ELSE IF step = FORECASTING
    THEN O.campaign_parameters # None /\ O.advertiser_preferences # None
    ELSE TRUE

\* the attribute of the orchestrator in which the handler of a step stores its result
ResultField(step) ==
    IF step = CAMPAIGN_DATA THEN "campaign_parameters"
    ELSE IF step = ADVERTISER_PREFERENCES THEN "advertiser_preferences"
    ELSE IF step = AUDIENCE_GENERATION THEN "audience_analysis"
    ELSE IF step = CAMPAIGN_GENERATION THEN "campaign_structure"
    ELSE "forecasting_result"

\* the parameters of RealDataForecastingAgent.generate_forecast
GenerateForecastParameters ==
    { "advertiser", "line_items", "campaign_budget", "campaign_timeline",
      "targeting_criteria" }

\* the keyword arguments _process_forecasting passes to it
ForecastingCallKeywords ==
    { "advertiser", "line_items", "campaign_budget", "campaign_timeline",
      "targeting_criteria", "target_frequency" }

\* Python binds the call only if every keyword is a parameter (else TypeError)
CallAccepted(keywords, parameters) == keywords \subseteq parameters

\* the handler reads self.campaign_parameters.advertiser to build the arguments of
\* generate_reasoning, once its agent has returned
ReasoningNeedsParameters(step) == step \in { AUDIENCE_GENERATION, CAMPAIGN_GENERATION }

\* the steps whose agents (campaign_parser, audience_generation, lineitem_generator)
\* wait for a reply and so give up the event loop at their awaits; the coroutines of
\* the preferences agent and of the forecasting agent never do
AwaitSuspends(step) == step \in { CAMPAIGN_DATA, AUDIENCE_GENERATION, CAMPAIGN_GENERATION }

\* what an agent may do to a handler: nothing, raise in its call, raise in
\* generate_reasoning
Raises == { "none", "agent", "reasoning" }

\* a debounce that lets every advance through
NeverDebounced(current_time, _last_advance_time) == FALSE

\* current_time - self._last_advance_time < 1.0
Debounced(current_time, _last_advance_time) == current_time - _last_advance_time < 1

\* a request task of the event loop: not in process_step, suspended in the agent's
\* call, suspended in generate_reasoning, or done with the outcome `ret`
IdleTask == [pc |-> "idle", step |-> CAMPAIGN_DATA, stale |-> FALSE]

Suspended(task) == task.pc \in { "agent", "reasoning" }

Done(task, ret) == [pc |-> "done", step |-> task.step, stale |-> FALSE, ret |-> ret]

\* a finished process_step leaves its task free for the next request
Settle(task) == IF task.pc = "done" THEN IdleTask ELSE task

\* and its outcome is what the endpoint answers
Answer(task, old) == IF task.pc = "done" THEN [step |-> task.step, ret |-> task.ret] ELSE old

NoResponse == [step |-> "none", ret |-> Ok("none")]

\* WorkflowResult(step=...)
WorkflowResult(step) == Ok([step |-> step])

(***************************************************************************)
(* The inputs of the calls.                                                *)
(***************************************************************************)
MaxValues == 2      \* values listed for one targeting type
MaxWeeks == 8       \* weeks handed to the pacer
MantBits == 8       \* significant bits of a float in the rounded arithmetic

\* datetime.now() as a date ordinal: Friday 2026-11-06
Today == 739926

TargetTypes == << "network", "zip", "genre", "foo" >>

\* the values a caller lists for a type; "q" is in no table
TargetValues ==
    [network |-> << "x", "y", "q" >>, zip |-> << "90210" >>,
     genre |-> << "drama" >>, foo |-> << "q" >>]

RECURSIVE Pick(_, _, _)
Pick(s, S, i) ==
    IF i > Len(s) THEN << >>
    ELSE (IF i \in S THEN << s[i] >> ELSE << >>) \o Pick(s, S, i + 1)

ValueLists(t) ==
    { Pick(TargetValues[t], S, 1) :
        S \in { S \in SUBSET (1..Len(TargetValues[t])) : Cardinality(S) <= MaxValues } }

\* f[i] is None when type i is not targeted, else the list of its values
RECURSIVE BuildCriteria(_, _)
BuildCriteria(f, i) ==
    IF i > Len(TargetTypes) THEN << >>
    ELSE (IF f[i] = None THEN << >> ELSE << Item(TargetTypes[i], f[i][1]) >>)
         \o BuildCriteria(f, i + 1)

RECURSIVE Choices(_)
Choices(i) ==
    IF i = 0 THEN { << >> }
    ELSE { Append(f, o) : f \in Choices(i - 1),
                          o \in {None} \cup { Some(vs) : vs \in ValueLists(TargetTypes[i]) } }

Criteria == { BuildCriteria(f, 1) : f \in Choices(Len(TargetTypes)) }

Budgets == {0, 1000, 2000}

Str4Weeks == << "4", " ", "w", "e", "e", "k", "s" >>
Str2Weeks == << "2", " ", "W", "E", "E", "K", "S" >>
Str0Weeks == << "0", " ", "w", "e", "e", "k", "s" >>
Str6Months == << "6", " ", "m", "o", "n", "t", "h", "s" >>
StrLongWeeks == << "5", "0", "0", "0", "0", "0", " ", "w", "e", "e", "k", "s" >>

Timelines == { Str4Weeks, Str2Weeks, Str0Weeks, Str6Months, StrLongWeeks }

\* periods of the random stream, each value in [-0.1, 0.1)
DrawPatterns == { << Rat(1, 20), Rat(-1, 20) >>, << Rat(0, 1) >> }

LookupTypes == { TargetTypes[i] : i \in 1..Len(TargetTypes) }

LookupValues == {None} \cup { Some(v) : v \in {"x", "y", "90210", "drama", "q", ""} }

PacerBudgets == {0, 1000, 280000}

MaxForecasts == 2   \* weekly forecasts handed to the campaign-level forecast

\* inventory, impressions (millions), fill-rate percent and eCPM of a week, as
\* _generate_weekly_forecast rounds them: one and two decimals
WeekProfiles ==
    { << Rat(25, 2), OfInt(1), OfInt(90), OfInt(10) >>,
      << OfInt(13), OfInt(3), OfInt(50), OfInt(20) >>,
      << OfInt(13), OfInt(0), OfInt(30), OfInt(15) >> }

\* the forecasts week number w can have; weeks start on the Monday after Today
WeeklyForecasts(w) ==
    { WeeklyForecast(w, << Today + 3 + 7 * (w - 1), Today + 9 + 7 * (w - 1) >>,
                     p[1], p[2], p[3], p[4]) : p \in WeekProfiles }

\* the lists of at most n weekly forecasts, weeks 1, 2, ... in order
RECURSIVE ForecastLists(_)
ForecastLists(n) ==
    IF n = 0 THEN { << >> }
    ELSE ForecastLists(n - 1)
         \cup { Append(fs, f) : fs \in { l \in ForecastLists(n - 1) : Len(l) = n - 1 },
                                f \in WeeklyForecasts(n) }

TargetFrequencies ==
    {None} \cup { Some(f) : f \in { OfInt(0), OfInt(2), Rat(5, 2), OfInt(3) } }

\* line items drawing on the sports pool, and on the premium pool
SportsItems ==
    << LineItem(500, OfInt(20), StrSports, << >>), LineItem(1500, OfInt(12), << >>, << >>) >>

PremiumItems ==
    << LineItem(500, OfInt(20), << >>, << >>), LineItem(1500, OfInt(12), << >>, StrNews) >>

\* the line-item lists handed to the weekly forecaster
LineItemLists ==
    { << >>,
      << LineItem(1000, OfInt(10), << >>, << >>) >>,
      << LineItem(1000, OfInt(0), << >>, << >>) >>,
      SportsItems, PremiumItems }

WeeklyTimelines == { Str4Weeks, Str2Weeks, Str0Weeks, Str6Months }

\* the requests made of the weekly forecaster; the sports pool (whose fill rate is
\* never capped) is forecast over at most two weeks
WeeklyRequests ==
    { r \in LineItemLists \X PacerBudgets \X WeeklyTimelines :
          r[1] = SportsItems => r[3] \in { Str2Weeks, Str0Weeks } }

WeeklyTargetings ==
    { None,
      Some(Targeting(<< "hulu" >>, << >>, << >>)),
      Some(Targeting(<< >>, << StrLocal >>, << "drama" >>)) }

(***************************************************************************)
(* The state after import: no loader, no agent, no call made.              *)
(***************************************************************************)
Idle == [op |-> "none"]


\* the loaders the model lets the program make
MaxLoads == 2
\* the requests the event loop holds at a time
MaxTasks == 2
Tasks == 1..MaxTasks
\* time.time() when the server starts, and the last second the model follows
StartTime == 1
MaxTime == 5

IndexInit == loads = 0 /\ observed = {}

WorkflowInit ==
    /\ orch = MultiAgentOrchestrator
    /\ tasks = [t \in Tasks |-> IdleTask]
    /\ now = StartTime
    /\ accepted = [at |-> 0, reset |-> TRUE]
    /\ response = NoResponse

Init ==
    /\ disk \in Disks
    /\ loader = None
    /\ agent = None
    /\ mantissa = 0
    /\ last = Idle
    /\ IndexInit
    /\ WorkflowInit

\* RealDataForecastingAgent.__init__: get_real_data_loader() builds the loader once
AgentInit ==
    /\ agent = None
    /\ loader' = IF loader = None THEN Some(load_all_data(disk)) ELSE loader
    /\ loads' = IF loader = None THEN loads + 1 ELSE loads
    /\ observed' = observed \cup {loads'}
    /\ agent' = Some([data_loader |-> Some([id |-> loads', obj |-> loader'[1]])])
    /\ UNCHANGED <<disk, mantissa, last, workflow>>

\* await agent.generate_forecast(...)
GenerateForecast ==
    /\ agent # None
    /\ last = Idle
    /\ \E campaign_budget \in Budgets, campaign_timeline \in Timelines,
          targeting_criteria \in Criteria, draws \in DrawPatterns :
          last' = [op |-> "generate_forecast",
                   campaign_budget |-> campaign_budget,
                   campaign_timeline |-> campaign_timeline,
                   targeting_criteria |-> targeting_criteria,
                   draws |-> draws,
                   ret |-> generate_forecast(agent[1], agent[1].data_loader[1].obj,
                               campaign_budget,
                               campaign_timeline, targeting_criteria, Today, draws)]
    /\ UNCHANGED <<disk, loader, agent, mantissa, index, workflow>>

\* loader.get_forecasting_data_for_campaign(...)
GetForecastingDataForCampaign ==
    /\ loader # None
    /\ last = Idle
    /\ \E targeting_criteria \in Criteria, draws \in DrawPatterns :
          last' = [op |-> "get_forecasting_data_for_campaign",
                   targeting_criteria |-> targeting_criteria,
                   draws |-> draws,
                   ret |-> get_forecasting_data_for_campaign(
                               loader[1], targeting_criteria, 1000, 4, draws)]
    /\ UNCHANGED <<disk, loader, agent, mantissa, index, workflow>>

\* loader.get_fill_rate_for_targeting(targeting_type, targeting_value)
GetFillRateForTargeting ==
    /\ loader # None
    /\ last = Idle
    /\ \E targeting_type \in LookupTypes, targeting_value \in LookupValues :
          last' = [op |-> "get_fill_rate_for_targeting",
                   targeting_type |-> targeting_type,
                   targeting_value |-> targeting_value,
                   ret |-> get_fill_rate_for_targeting(
                               loader[1], targeting_type, targeting_value)]
    /\ UNCHANGED <<disk, loader, agent, mantissa, index, workflow>>

\* loader.get_inventory_for_targeting(targeting_type, targeting_value)
GetInventoryForTargeting ==
    /\ loader # None
    /\ last = Idle
    /\ \E targeting_type \in LookupTypes, targeting_value \in LookupValues :
          last' = [op |-> "get_inventory_for_targeting",
                   targeting_type |-> targeting_type,
                   targeting_value |-> targeting_value,
                   ret |-> get_inventory_for_targeting(
                               loader[1], targeting_type, targeting_value)]
    /\ UNCHANGED <<disk, loader, agent, mantissa, index, workflow>>

\* agent._distribute_budget_weekly(total_budget, num_weeks)
DistributeBudgetWeekly ==
    /\ agent # None
    /\ last = Idle
    /\ \E total_budget \in PacerBudgets, num_weeks \in 0..MaxWeeks :
          last' = [op |-> "_distribute_budget_weekly",
                   total_budget |-> total_budget,
                   num_weeks |-> num_weeks,
                   ret |-> _distribute_budget_weekly(total_budget, num_weeks)]
    /\ UNCHANGED <<disk, loader, agent, mantissa, index, workflow>>

\* the caller takes the outcome; the next call can be made
Return ==
    /\ last # Idle
    /\ last' = Idle
    /\ UNCHANGED <<disk, loader, agent, mantissa, index, workflow>>

\* ForecastingAgent._generate_campaign_forecast on a list of weekly forecasts
GenerateCampaignForecast ==
    /\ last = Idle
    /\ \E weekly_forecasts \in ForecastLists(MaxForecasts),
          target_frequency \in TargetFrequencies :
          last' = [op |-> "ForecastingAgent._generate_campaign_forecast",
                   weekly_forecasts |-> weekly_forecasts,
                   target_frequency |-> target_frequency,
                   ret |-> ForecastingAgent_generate_campaign_forecast(
                               weekly_forecasts, Str4Weeks, target_frequency)]
    /\ UNCHANGED <<disk, loader, agent, mantissa, index, workflow>>

\* ForecastingAgent._calculate_month_totals on a list of weekly forecasts
CalculateMonthTotals ==
    /\ last = Idle
    /\ \E weekly_forecasts \in ForecastLists(MaxForecasts) :
          last' = [op |-> "_calculate_month_totals",
                   weekly_forecasts |-> weekly_forecasts,
                   ret |-> _calculate_month_totals(weekly_forecasts)]
    /\ UNCHANGED <<disk, loader, agent, mantissa, index, workflow>>

\* await ForecastingAgent().generate_forecast(...)
GenerateWeeklyForecast ==
    /\ last = Idle
    /\ \E r \in WeeklyRequests, targeting_criteria \in WeeklyTargetings,
          target_frequency \in {None, Some(OfInt(3))} :
          last' = [op |-> "ForecastingAgent.generate_forecast",
                   line_items |-> r[1],
                   campaign_budget |-> r[2],
                   campaign_timeline |-> r[3],
                   targeting_criteria |-> targeting_criteria,
                   target_frequency |-> target_frequency,
                   ret |-> ForecastingAgent_generate_forecast(
                               r[1], r[2], r[3], targeting_criteria, target_frequency, Today)]
    /\ UNCHANGED <<disk, loader, agent, mantissa, index, workflow>>

Next ==
    \/ AgentInit
    \/ GenerateForecast
    \/ GetForecastingDataForCampaign
    \/ GetFillRateForTargeting
    \/ GetInventoryForTargeting
    \/ DistributeBudgetWeekly
    \/ GenerateCampaignForecast
    \/ CalculateMonthTotals
    \/ Return

Spec == Init /\ [][Next]_vars

\* the week-by-week ForecastingAgent of forecasting_agent.py, called on its own: it
\* shares no state with the real-data agent and reads nothing from the loader
NextWeekly ==
    \/ AgentInit
    \/ GenerateWeeklyForecast
    \/ Return

SpecWeekly == Init /\ [][NextWeekly]_vars

\* the same program computing in floats of MantBits significant bits, on the full tables
InitFl ==
    /\ disk = [fill |-> Some(FillTableA), avails |-> Some(AvailsTableA)]
    /\ loader = None
    /\ agent = None
    /\ mantissa = MantBits
    /\ last = Idle
    /\ IndexInit
    /\ WorkflowInit

SpecFl == InitFl /\ [][Next]_vars

(***************************************************************************)
(* The module-level loader of data_loader.py, as its other callers use it. *)
(***************************************************************************)
\* get_real_data_loader(), called by a caller other than the forecasting agent
GetRealDataLoader ==
    /\ loads < MaxLoads \/ loader # None
    /\ loader' = IF loader = None THEN Some(load_all_data(disk)) ELSE loader
    /\ loads' = IF loader = None THEN loads + 1 ELSE loads
    /\ observed' = observed \cup {loads'}
    /\ UNCHANGED <<disk, agent, mantissa, last, workflow>>

\* initialize_real_data(data_directory): a new RealDataLoader, loaded, replaces the global
InitializeRealData ==
    /\ loads < MaxLoads
    /\ \E d \in Disks :
          /\ disk' = d
          /\ loader' = Some(load_all_data(d))
    /\ loads' = loads + 1
    /\ UNCHANGED <<agent, mantissa, last, observed, workflow>>

NextIndex ==
    \/ AgentInit
    \/ GetRealDataLoader
    \/ InitializeRealData
    \/ GetForecastingDataForCampaign
    \/ GetFillRateForTargeting
    \/ GetInventoryForTargeting
    \/ Return

SpecIndex == Init /\ [][NextIndex]_vars

(***************************************************************************)
(* The requests of main.py on the orchestrator.                            *)
(***************************************************************************)
\* what the agent of a step returns (CampaignParameters, ..., ForecastingResult)
AgentResult(step) == [of |-> step]

\* the step handler from the return of its agent's call to its next await: the
\* task and the orchestrator it leaves
HandlerStores(O, task, raised) ==
    IF raised
    THEN [task |-> Done(task, Raise("failed")), orch |-> [O EXCEPT !._processing = FALSE]]
    ELSE IF ReasoningNeedsParameters(task.step) /\ O.campaign_parameters = None
    THEN [task |-> Done(task, Raise("failed")),
          orch |-> [O EXCEPT ![ResultField(task.step)] = Some(AgentResult(task.step)),
                             !._processing = FALSE]]
    ELSE [task |-> [task EXCEPT !.pc = "reasoning"],
          orch |-> [O EXCEPT ![ResultField(task.step)] = Some(AgentResult(task.step))]]

\* the step handler from the return of generate_reasoning: it builds the
\* WorkflowResult from the attribute it stored; process_step's finally clears
\* _processing
HandlerReturns(O, task, raised) ==
    [task |-> IF raised \/ O[ResultField(task.step)] = None
              THEN Done(task, Raise("failed"))
              ELSE Done(task, WorkflowResult(task.step)),
     orch |-> [O EXCEPT !._processing = FALSE]]

\* a step handler whose awaits never give up the event loop
RunsThrough(O, task, raised) ==
    With(HandlerStores(O, task, raised = "agent"), LAMBDA r :
      IF r.task.pc = "reasoning"
      THEN HandlerReturns(r.orch, r.task, raised = "reasoning")
      ELSE r)

\* process_step up to the first await that gives up the event loop
process_step(O, task, raised) ==
    IF O._processing
    THEN [task |-> Done(task, Raise("busy")), orch |-> O]
    ELSE IF ~_validate_step_prerequisites(O, task.step)
    THEN [task |-> Done(task, Raise("prerequisites")),
          orch |-> [O EXCEPT !._processing = FALSE]]
    ELSE IF task.step = COMPLETE
    THEN [task |-> Done(task, WorkflowResult(COMPLETE)),
          orch |-> [O EXCEPT !._processing = FALSE]]
    ELSE IF ~HandlerPrecondition(O, task.step)
    THEN [task |-> Done(task, Raise("precondition")),
          orch |-> [O EXCEPT !._processing = FALSE]]
    ELSE IF task.step = FORECASTING
            /\ ~CallAccepted(ForecastingCallKeywords, GenerateForecastParameters)
    THEN [task |-> Done(task, Raise("failed")),
          orch |-> [O EXCEPT !._processing = FALSE]]
    ELSE IF ~AwaitSuspends(task.step)
    THEN RunsThrough([O EXCEPT !._processing = TRUE], task, raised)
    ELSE [task |-> [task EXCEPT !.pc = "agent"],
          orch |-> [O EXCEPT !._processing = TRUE]]

\* POST /agent/process
ProcessStep(t) ==
    /\ tasks[t].pc = "idle"
    /\ \E raised \in Raises :
          /\ raised = "none" \/ (~orch._processing /\ ~AwaitSuspends(orch.current_step))
          /\ tasks' = [tasks EXCEPT ![t] = Settle(
                process_step(orch, [IdleTask EXCEPT !.step = orch.current_step], raised).task)]
          /\ response' = Answer(
                process_step(orch, [IdleTask EXCEPT !.step = orch.current_step], raised).task,
                response)
          /\ orch' =
                process_step(orch, [IdleTask EXCEPT !.step = orch.current_step], raised).orch
    /\ UNCHANGED <<engine, index, now, accepted>>

\* the agent's call of a suspended handler returns or raises
AgentReturns(t) ==
    /\ tasks[t].pc = "agent"
    /\ \E raised \in BOOLEAN :
          /\ tasks' = [tasks EXCEPT ![t] = Settle(HandlerStores(orch, tasks[t], raised).task)]
          /\ response' = Answer(HandlerStores(orch, tasks[t], raised).task, response)
          /\ orch' = HandlerStores(orch, tasks[t], raised).orch
    /\ UNCHANGED <<engine, index, now, accepted>>

\* generate_reasoning of a suspended handler returns or raises
ReasoningReturns(t) ==
    /\ tasks[t].pc = "reasoning"
    /\ \E raised \in BOOLEAN :
          /\ tasks' = [tasks EXCEPT ![t] = Settle(HandlerReturns(orch, tasks[t], raised).task)]
          /\ response' = Answer(HandlerReturns(orch, tasks[t], raised).task, response)
          /\ orch' = HandlerReturns(orch, tasks[t], raised).orch
    /\ UNCHANGED <<engine, index, now, accepted>>

\* advance_step at current_time: the orchestrator it leaves
advance_step(O, current_time) ==
    IF Debounced(current_time, O._last_advance_time) THEN O
    ELSE IF step_progression(O.current_step) # None
            /\ _validate_step_transition(O.current_step, step_progression(O.current_step)[1])
    THEN [O EXCEPT !._last_advance_time = current_time,
                   !.current_step = step_progression(O.current_step)[1]]
    ELSE [O EXCEPT !._last_advance_time = current_time]

\* POST /agent/advance
AdvanceStep ==
    /\ orch' = advance_step(orch, now)
    /\ accepted' = IF Debounced(now, orch._last_advance_time) THEN accepted
                   ELSE [at |-> now, reset |-> FALSE]
    /\ UNCHANGED <<engine, index, tasks, now, response>>

\* POST /agent/reset
ResetWorkflow ==
    /\ orch' = MultiAgentOrchestrator
    /\ tasks' = [t \in Tasks |->
                    IF Suspended(tasks[t]) THEN [tasks[t] EXCEPT !.stale = TRUE]
                    ELSE tasks[t]]
    /\ accepted' = [accepted EXCEPT !.reset = TRUE]
    /\ UNCHANGED <<engine, index, now, response>>

\* time.time() moves on
Tick ==
    /\ now < MaxTime
    /\ now' = now + 1
    /\ UNCHANGED <<engine, index, orch, tasks, accepted, response>>

NextOrch ==
    \/ \E t \in Tasks : ProcessStep(t)
    \/ \E t \in Tasks : AgentReturns(t)
    \/ \E t \in Tasks : ReasoningReturns(t)
    \/ AdvanceStep
    \/ ResetWorkflow
    \/ Tick

InitOrch ==
    /\ disk = [fill |-> Some(FillTableA), avails |-> Some(AvailsTableA)]
    /\ loader = None
    /\ agent = None
    /\ mantissa = 0
    /\ last = Idle
    /\ IndexInit
    /\ WorkflowInit

SpecOrch == InitOrch /\ [][NextOrch]_vars

(***************************************************************************)
(* Properties.  Sums and quotients in them are exact rational arithmetic.  *)
(***************************************************************************)
RECURSIVE RSumFrom(_, _, _)
RSumFrom(xs, i, acc) ==
    IF i > Len(xs) THEN acc ELSE RSumFrom(xs, i + 1, RAdd(acc, xs[i]))

RSum(xs) == RSumFrom(xs, 1, OfInt(0))

SetMin(S) == CHOOSE m \in S : \A x \in S : m <= x

ForecastReturned == last.op = "generate_forecast" /\ last.ret.exc = NoExc

ResolverReturned ==
    last.op = "get_forecasting_data_for_campaign" /\ last.ret.exc = NoExc

\* budget / price * 1000, in millions, times the resolver's fill rate
ConstrainedMm ==
    RMul(RDiv(RMul(RDiv(OfInt(last.campaign_budget),
                        last.ret.real_data_info.estimated_cpm),
                   OfInt(1000)),
              OfInt(1000000)),
         last.ret.real_data_info.fill_rate_estimate)

\* C1: in every forecast generate_forecast returns, on the real-data and on the
\* mock-data path, forecasted_impressions_mm is the smaller of demanded * fill rate
\* and total_inventory_available_mm, hence never above the inventory.
InventoryCap ==
    ForecastReturned =>
        LET f == last.ret.val.campaign_forecast
        IN  /\ RLe(f.forecasted_impressions_mm, f.total_inventory_available_mm)
            /\ f.forecasted_impressions_mm =
                   RMin(ConstrainedMm, f.total_inventory_available_mm)

\* a real-data forecast whose demand exceeds the inventory and is cut down to it
CapBinds ==
    /\ ForecastReturned
    /\ last.ret.path = "real"
    /\ RLt(OfInt(0), last.ret.val.campaign_forecast.total_inventory_available_mm)
    /\ RLt(last.ret.val.campaign_forecast.total_inventory_available_mm, ConstrainedMm)
    /\ last.ret.val.campaign_forecast.forecasted_impressions_mm =
           last.ret.val.campaign_forecast.total_inventory_available_mm

\* C2: for every budget > 0 and every N >= 1, _distribute_budget_weekly(budget, N)
\* returns N allocations, each > 0, whose sum is exactly the budget.
BudgetSumInvariant ==
    (last.op = "_distribute_budget_weekly" /\ last.total_budget > 0 /\ last.num_weeks >= 1) =>
        /\ Len(last.ret) = last.num_weeks
        /\ \A w \in 1..Len(last.ret) : RLt(OfInt(0), last.ret[w])
        /\ RSum(last.ret) = OfInt(last.total_budget)

\* $280,000 over 4 weeks, paced unevenly, adds up to $280,000
BudgetSplitUnevenly ==
    /\ last.op = "_distribute_budget_weekly"
    /\ last.total_budget = 280000
    /\ last.num_weeks = 4
    /\ last.ret[1] # last.ret[2]
    /\ RSum(last.ret) = OfInt(280000)

\* C3: the confidence of every result generate_forecast returns lies in [0.6, 0.98],
\* with loaded data and without.
ConfidenceBounds ==
    ForecastReturned =>
        /\ RLe(Rat(6, 10), last.ret.val.confidence)
        /\ RLe(last.ret.val.confidence, Rat(98, 100))

\* a forecast from mock data, whose confidence 0.75 - 0.2 is raised to the floor 0.6
MockConfidenceAtFloor ==
    /\ ForecastReturned
    /\ last.ret.path = "mock"
    /\ last.ret.real_data_info.confidence_score = Rat(75, 100)
    /\ last.ret.val.confidence = Rat(6, 10)

\* C4: the result of a forecast does not depend on the values drawn in
\* _distribute_inventory_weekly: the same request on the same loader returns the
\* same result whatever the random stream.
Determinism ==
    ForecastReturned =>
        \A d \in DrawPatterns :
            generate_forecast(agent[1], loader[1], last.campaign_budget,
                              last.campaign_timeline, last.targeting_criteria,
                              Today, d).val = last.ret.val

\* C5: generate_forecast raises no error, for every budget >= 0, every timeline
\* string and every criteria, with full, partial or no data.
ForecastNeverRaises ==
    last.op = "generate_forecast" => last.ret.exc = NoExc

\* the weight the pacing curve gives week i (1-based) of N > 2 weeks
CurveWeight(i, N) ==
    IF i = 1 THEN Rat(8, 10) ELSE IF i = N THEN Rat(9, 10) ELSE Rat(11, 10)

\* C6: for N <= 2 every allocation is budget / N; for N > 2 allocation i is
\* budget * w_i / sum(w) with w = 0.8 first, 0.9 last, 1.1 between, so that (for a
\* budget > 0) the last and every interior allocation exceed the first, and every
\* interior one exceeds the last.
PacingCurve ==
    last.op = "_distribute_budget_weekly" =>
        LET N == last.num_weeks
            budget == OfInt(last.total_budget)
            W == RSum([i \in 1..N |-> CurveWeight(i, N)])
        IN  /\ Len(last.ret) = N
            /\ N <= 2 => \A i \in 1..N : last.ret[i] = RDiv(budget, OfInt(N))
            /\ N > 2 =>
                /\ \A i \in 1..N :
                      last.ret[i] = RDiv(RMul(budget, CurveWeight(i, N)), W)
                /\ last.total_budget > 0 =>
                      /\ RLt(last.ret[1], last.ret[N])
                      /\ \A i \in 2..(N - 1) :
                            RLt(last.ret[1], last.ret[i]) /\ RLt(last.ret[N], last.ret[i])

\* five weeks of a positive budget: ramp-up, three peak weeks, wind-down
PacedFiveWeeks ==
    /\ last.op = "_distribute_budget_weekly"
    /\ last.num_weeks = 5
    /\ last.total_budget = 1000
    /\ RLt(last.ret[1], last.ret[5])
    /\ RLt(last.ret[5], last.ret[3])

\* what one targeted type contributes to the inventory ceiling
InventoryContribution(L, item) ==
    IF item.values # << >>
    THEN IntSum([k \in 1..Len(item.values) |->
                    get_inventory_for_targeting(L, item.type, Some(item.values[k]))])
    ELSE IF item.type \in DOMAIN L._inventory_by_category
         THEN L._inventory_by_category[item.type].total_inventory
         ELSE get_total_inventory(L)

InventoryContributions(L, c) == { InventoryContribution(L, c[k]) : k \in 1..Len(c) }

\* C7: the inventory ceiling is the global total inventory for empty criteria, else
\* the minimum over the targeted types of their contributions (the sum of
\* inventoryFor over the listed values, or the type's total when none is listed);
\* contributions of different types are never added.
InventoryCeiling ==
    ResolverReturned =>
        LET c == last.targeting_criteria
            ceiling == IF c = << >> THEN get_total_inventory(loader[1])
                       ELSE SetMin(InventoryContributions(loader[1], c))
        IN  last.ret.val.available_inventory_mm = RDiv(OfInt(ceiling), OfInt(1000000))

\* two targeted types that contribute differently: the ceiling is the smaller one
BottleneckOfTwo ==
    /\ ResolverReturned
    /\ Len(last.targeting_criteria) = 2
    /\ Cardinality(InventoryContributions(loader[1], last.targeting_criteria)) = 2
    /\ last.ret.val.available_inventory_mm =
           RDiv(OfInt(SetMin(InventoryContributions(loader[1], last.targeting_criteria))),
                OfInt(1000000))

\* what one targeted type contributes to the combined fill rate
FillContribution(L, item) ==
    IF item.values # << >>
    THEN RDiv(RSum([k \in 1..Len(item.values) |->
                       get_fill_rate_for_targeting(L, item.type, Some(item.values[k])).val]),
              OfInt(Len(item.values)))
    ELSE get_fill_rate_for_targeting(L, item.type, None).val

FillWeight(item) == IF Len(item.values) > 1 THEN Len(item.values) ELSE 1

\* the request-count-weighted mean fill rate of all rows (0.12 without a fill table)
GlobalFillRate(L) ==
    IF L.fill_data = None THEN Rat(12, 100)
    ELSE RDiv(RSum([i \in 1..Len(L.fill_data[1]) |->
                       RMul(L.fill_data[1][i].fill_rate,
                            OfInt(L.fill_data[1][i].request_count))]),
              OfInt(IntSum(Column(L.fill_data[1], "request_count"))))

\* C8: the combined fill rate is the global weighted fill rate for empty criteria,
\* else the mean of the types' contributions weighted by max(1, |V|); it lies in
\* [0, 1] and between the smallest and the largest contribution.
CombinedFillRate ==
    ResolverReturned =>
        LET L == loader[1]
            c == last.targeting_criteria
            contributions == [k \in 1..Len(c) |-> FillContribution(L, c[k])]
            weights == [k \in 1..Len(c) |-> FillWeight(c[k])]
            combined == last.ret.val.fill_rate_estimate
        IN  /\ c = << >> => combined = GlobalFillRate(L)
            /\ c # << >> =>
                /\ combined =
                       RDiv(RSum([k \in 1..Len(c) |->
                                     RMul(contributions[k], OfInt(weights[k]))]),
                            OfInt(IntSum(weights)))
                /\ \E k \in 1..Len(c) : RLe(contributions[k], combined)
                /\ \E k \in 1..Len(c) : RLe(combined, contributions[k])
            /\ RLe(OfInt(0), combined) /\ RLe(combined, OfInt(1))

\* a type with two values and a type with none, contributing different rates: the
\* combined rate is strictly between them and is not their plain average
WeightedBetween ==
    /\ ResolverReturned
    /\ Len(last.targeting_criteria) = 2
    /\ Len(last.targeting_criteria[1].values) = 2
    /\ last.targeting_criteria[2].values = << >>
    /\ RLt(FillContribution(loader[1], last.targeting_criteria[2]),
           last.ret.val.fill_rate_estimate)
    /\ RLt(last.ret.val.fill_rate_estimate,
           FillContribution(loader[1], last.targeting_criteria[1]))
    /\ last.ret.val.fill_rate_estimate #
           RDiv(RAdd(FillContribution(loader[1], last.targeting_criteria[1]),
                     FillContribution(loader[1], last.targeting_criteria[2])),
                OfInt(2))

\* C9: get_fill_rate_for_targeting never raises, also for a type or a value the
\* index does not know.
FillRateLookupNeverRaises ==
    last.op = "get_fill_rate_for_targeting" => last.ret.exc = NoExc

\* the rows of the inventory table with this type, and with this type and value
AvailsOf(L, t) == SelectSeq(L.avails_data[1], LAMBDA r : r.targeting_type = t)

AvailsOfValue(L, t, v) == SelectSeq(AvailsOf(L, t), LAMBDA r : r.targeting_value = v)

\* C10: get_inventory_for_targeting(d, v) is v's inventory when v is given and known
\* in d; else d's average inventory per value (rounded down) when the index knows d;
\* else 1% (rounded down) of the total inventory of all rows, the total being
\* 1,000,000,000 without an inventory table.  A type the index does not know
\* resolves to the global weighted fill rate.
InventoryFallbackChain ==
    /\ last.op = "get_inventory_for_targeting" =>
        LET L == loader[1]
            d == last.targeting_type
            v == last.targeting_value
            total == IF L.avails_data = None THEN 1000000000
                     ELSE IntSum(Column(L.avails_data[1], "Count"))
        IN  IF d \in DOMAIN L._inventory_by_category
            THEN IF v # None /\ v[1] # "" /\ AvailsOfValue(L, d, v[1]) # << >>
                 THEN last.ret = AvailsOfValue(L, d, v[1])[Len(AvailsOfValue(L, d, v[1]))].Count
                 ELSE last.ret = IntSum(Column(AvailsOf(L, d), "Count")) \div Len(AvailsOf(L, d))
            ELSE last.ret = total \div 100
    /\ (/\ last.op = "get_fill_rate_for_targeting"
        /\ last.ret.exc = NoExc
        /\ last.targeting_type \notin DOMAIN loader[1]._processed_fill_rates) =>
           last.ret.val = GlobalFillRate(loader[1])

\* a type in no table, asked of a loaded inventory table: 1% of the 47,001 units
UnknownTypeOnePercent ==
    /\ last.op = "get_inventory_for_targeting"
    /\ last.targeting_type = "foo"
    /\ loader[1].avails_data # None
    /\ loader[1]._inventory_by_category # NoMap
    /\ last.ret = 470

RECURSIVE RProdFrom(_, _, _)
RProdFrom(xs, i, acc) ==
    IF i > Len(xs) THEN acc ELSE RProdFrom(xs, i + 1, RMul(acc, xs[i]))

RProd(xs) == RProdFrom(xs, 1, OfInt(1))

\* the premium factor of a targeting type
PremiumFactor(type) ==
    IF type = "network" THEN Rat(120, 100)
    ELSE IF type = "zip" THEN Rat(110, 100)
    ELSE IF type \in {"genre", "content"} THEN Rat(115, 100)
    ELSE OfInt(1)

\* C11: the estimated price is 12 times the product, over every key of the criteria,
\* of the key's premium factor (1.20 network, 1.10 zip, 1.15 genre/content, 1 other),
\* whatever the number of values the key lists.
PriceEstimate ==
    ResolverReturned =>
        last.ret.val.estimated_cpm =
            RMul(OfInt(12),
                 RProd([k \in 1..Len(last.targeting_criteria) |->
                           PremiumFactor(last.targeting_criteria[k].type)]))

\* the number of fill-rate records of a type in the index, 0 for a type it has not seen
RecordCount(L, type) ==
    IF type \in DOMAIN L._processed_fill_rates
    THEN L._processed_fill_rates[type].records_count
    ELSE 0

\* C12: the resolver's confidence is 0.85 for empty criteria, else the arithmetic mean
\* over the targeted types d of min(0.95, 0.5 + recordCount(d) / 1000), recordCount
\* being 0 for a type the index has never seen.
ResolverConfidence ==
    ResolverReturned =>
        LET c == last.targeting_criteria
        IN  last.ret.val.confidence_score =
                IF c = << >> THEN Rat(85, 100)
                ELSE RDiv(RSum([k \in 1..Len(c) |->
                                   RMin(Rat(95, 100),
                                        RAdd(Rat(5, 10),
                                             Rat(RecordCount(loader[1], c[k].type), 1000)))]),
                          OfInt(Len(c)))

\* 0.85 when the loader holds the fill table it read, 0.65 when the agent falls back
DataSourceConfidence ==
    IF agent[1].data_loader # None /\ loader[1].fill_data # None
    THEN Rat(85, 100) ELSE Rat(65, 100)

\* C13: the confidence of a forecast is (resolverConfidence + dataSourceConfidence) / 2
\* clamped to [0.6, 0.98], dataSourceConfidence being 0.85 on real tables and 0.65 on
\* the fallback.
ScorerFormula ==
    ForecastReturned =>
        last.ret.val.confidence =
            RMin(Rat(98, 100),
                 RMax(Rat(6, 10),
                      RDiv(RAdd(last.ret.real_data_info.confidence_score,
                                DataSourceConfidence),
                           OfInt(2))))

\* budget / price * 1000, in millions: the impressions the budget asks for
DemandedMm ==
    RDiv(RMul(RDiv(OfInt(last.campaign_budget), last.ret.real_data_info.estimated_cpm),
              OfInt(1000)),
         OfInt(1000000))

\* C14: fill_rate_percent is finalImpressions / demandedImpressions * 100, is 0 when
\* demandedImpressions = 0 (budget 0), and lies in [0, 100].
ActualFillRate ==
    ForecastReturned =>
        LET f == last.ret.val.campaign_forecast
        IN  /\ f.fill_rate_percent =
                   IF DemandedMm = OfInt(0) THEN OfInt(0)
                   ELSE RMul(RDiv(f.forecasted_impressions_mm, DemandedMm), OfInt(100))
            /\ RLe(OfInt(0), f.fill_rate_percent)
            /\ RLe(f.fill_rate_percent, OfInt(100))

\* C15: the effective price is budget / finalImpressions per 1000 units, hence at
\* least the estimated price, when finalImpressions > 0; it is the estimated price
\* when finalImpressions = 0, and no division by zero is raised.
EffectivePrice ==
    /\ last.op = "generate_forecast" => last.ret.exc # "ZeroDivisionError"
    /\ ForecastReturned =>
        LET f == last.ret.val.campaign_forecast
            C == last.ret.real_data_info.estimated_cpm
        IN  IF RLt(OfInt(0), f.forecasted_impressions_mm)
            THEN /\ f.effective_cpm_dollars =
                        RMul(RDiv(OfInt(last.campaign_budget),
                                  RMul(f.forecasted_impressions_mm, OfInt(1000000))),
                             OfInt(1000))
                 /\ RLe(C, f.effective_cpm_dollars)
            ELSE f.effective_cpm_dollars = C

\* a positive budget of which nothing is delivered: the price falls back to the estimate
PriceFallsBack ==
    /\ ForecastReturned
    /\ last.campaign_budget > 0
    /\ last.ret.val.campaign_forecast.forecasted_impressions_mm = OfInt(0)
    /\ last.ret.val.campaign_forecast.effective_cpm_dollars =
           last.ret.real_data_info.estimated_cpm

\* the impressions of the forecast, in units
FinalImpressions ==
    RMul(last.ret.val.campaign_forecast.forecasted_impressions_mm, OfInt(1000000))

\* the largest integer not above a rational x >= 0
Floor(x) == x[1] \div x[2]

\* C16: estimated_reach is finalImpressions * 0.65 as an integer (rounded down), >= 0
\* and never above finalImpressions; frequency is finalImpressions / estimated_reach,
\* hence >= 1, when estimated_reach > 0, and the defined value 1 when it is 0.
ReachAndFrequency ==
    ForecastReturned =>
        LET f == last.ret.val.campaign_forecast
        IN  /\ f.estimated_reach = Floor(RMul(FinalImpressions, Rat(65, 100)))
            /\ f.estimated_reach >= 0
            /\ RLe(OfInt(f.estimated_reach), FinalImpressions)
            /\ IF f.estimated_reach > 0
               THEN /\ f.frequency = RDiv(FinalImpressions, OfInt(f.estimated_reach))
                    /\ RLe(OfInt(1), f.frequency)
               ELSE f.frequency = OfInt(1)

\* a forecast that reaches viewers, 0.65 of the impressions rounded down, each of
\* whom sees the campaign more than once
ReachRoundedDown ==
    /\ ForecastReturned
    /\ last.ret.val.campaign_forecast.estimated_reach > 0
    /\ RLt(OfInt(last.ret.val.campaign_forecast.estimated_reach),
           RMul(FinalImpressions, Rat(65, 100)))
    /\ RLt(OfInt(1), last.ret.val.campaign_forecast.frequency)

CampaignForecastReturned ==
    last.op = "ForecastingAgent._generate_campaign_forecast" /\ last.ret.exc = NoExc

\* the impressions of the campaign-level forecast, in units
CampaignImpressions == RMul(last.ret.val.forecasted_impressions_mm, OfInt(1000000))

\* the factor a target frequency f puts on the reach
ReachFactor(f) ==
    IF RLe(OfInt(3), f) THEN Rat(85, 100)
    ELSE IF RLe(Rat(5, 2), f) THEN Rat(95, 100)
    ELSE Rat(105, 100)

\* C17: with a target frequency f the reach is the base reach times 0.85 (f >= 3.0),
\* 0.95 (2.5 <= f < 3.0) or 1.05 (f < 2.5), not below 0.7 of the base reach, and the
\* frequency reported is finalImpressions / adjusted reach, not f itself; without a
\* target, reach and frequency are those of the 0.65 reach factor.
FrequencyAdjustment ==
    CampaignForecastReturned =>
        LET base == Floor(RMul(CampaignImpressions, Rat(65, 100)))
            f == last.target_frequency
            reach == last.ret.val.estimated_reach
        IN  /\ f = None => reach = base
            /\ f # None =>
                   reach = Floor(RMax(RMul(OfInt(base), ReachFactor(f[1])),
                                      RMul(OfInt(base), Rat(7, 10))))
            /\ reach > 0 =>
                   last.ret.val.frequency = RDiv(CampaignImpressions, OfInt(reach))

\* the exact mean of a field of the weekly forecasts, weighted by their impressions
WeightedMean(weekly_forecasts, field) ==
    RDiv(RSum([w \in 1..Len(weekly_forecasts) |->
                  RMul(weekly_forecasts[w][field],
                       weekly_forecasts[w].forecasted_impressions_mm)]),
         RSum(Column(weekly_forecasts, "forecasted_impressions_mm")))

\* C18: the campaign-level inventory and impressions are the sums of the weekly ones,
\* and the campaign-level fill-rate percent and effective price are the means of the
\* weekly values weighted by impressions (not their plain averages), in the
\* campaign-level forecast and in the month totals.
WeightedAggregation ==
    LET fs == last.weekly_forecasts
        delivered == RLt(OfInt(0), RSum(Column(fs, "forecasted_impressions_mm")))
    IN  /\ CampaignForecastReturned =>
            /\ last.ret.val.total_inventory_available_mm =
                   RSum(Column(fs, "inventory_available_mm"))
            /\ last.ret.val.forecasted_impressions_mm =
                   RSum(Column(fs, "forecasted_impressions_mm"))
            /\ delivered =>
                /\ last.ret.val.fill_rate_percent =
                       PyRound(WeightedMean(fs, "fill_rate_percent"), 1)
                /\ last.ret.val.effective_cpm_dollars =
                       PyRound(WeightedMean(fs, "ecpm_dollars"), 2)
        /\ last.op = "_calculate_month_totals" =>
            /\ last.ret.inventory_available_mm =
                   RSum(Column(fs, "inventory_available_mm"))
            /\ last.ret.forecasted_impressions_mm =
                   RSum(Column(fs, "forecasted_impressions_mm"))
            /\ delivered =>
                /\ last.ret.avg_fill_rate_percent =
                       PyRound(WeightedMean(fs, "fill_rate_percent"), 1)
                /\ last.ret.avg_ecpm_dollars =
                       PyRound(WeightedMean(fs, "ecpm_dollars"), 2)

\* C19: _parse_timeline_to_weeks returns the first number embedded in the timeline
\* string, and 4 exactly when the string holds no number; it never raises.
TimelineParsing ==
    last.op = "generate_forecast" =>
        last.ret.num_weeks =
            IF HasNumber(last.campaign_timeline)
            THEN FirstNumber(last.campaign_timeline)
            ELSE 4

\* C20: the week count generate_forecast takes from _parse_timeline_to_weeks and hands
\* to the resolver and the calculator is an integer >= 1, for every timeline string.
WeekCountAtLeastOne ==
    last.op = "generate_forecast" => last.ret.num_weeks >= 1

\* C21: when a source table (fill-rate or inventory) is absent, every forecast is
\* computed from the synthetic default: fill rate 0.12, price $15, and a total
\* inventory of 1,000,000,000 units in the index.
SyntheticFallback ==
    (ForecastReturned /\ (disk.fill = Absent \/ disk.avails = Absent)) =>
        /\ last.ret.real_data_info.fill_rate_estimate = Rat(12, 100)
        /\ last.ret.real_data_info.estimated_cpm = OfInt(15)
        /\ get_total_inventory(loader[1]) = 1000000000

\* C28: the data_source of a forecast is "mock_data" exactly when its forecasting
\* values came from _generate_mock_forecasting_info, and "real_data" exactly when
\* they came from the loader's get_forecasting_data_for_campaign.
DataSourceFidelity ==
    ForecastReturned =>
        /\ last.ret.val.data_source = "mock_data" <=> last.ret.path # "real"
        /\ last.ret.val.data_source = "real_data" <=> last.ret.path = "real"

\* C29: in every forecasting-info record (real-data path, whatever the draws, and mock
\* path), for a week count N >= 1 the weekly_distribution has exactly N non-negative
\* entries and their sum equals available_inventory_mm.
WeeklyInventoryConservation ==
    (ForecastReturned /\ last.ret.num_weeks >= 1) =>
        LET info == last.ret.real_data_info
        IN  /\ Len(info.weekly_distribution) = last.ret.num_weeks
            /\ \A w \in 1..Len(info.weekly_distribution) :
                   RLe(OfInt(0), info.weekly_distribution[w])
            /\ RSum(info.weekly_distribution) = info.available_inventory_mm

WeeklyForecastCalled == last.op = "ForecastingAgent.generate_forecast"

\* C30: ForecastingAgent.generate_forecast never fails with a division by zero: with a
\* week's demanded or forecasted impressions zero, or a zero average price, the fill
\* rate, adjusted fill rate and eCPM take fallback values.
NoDivisionByZero ==
    WeeklyForecastCalled => last.ret.exc # "ZeroDivisionError"

\* C22: the aggregate index is built once and then read-only: under every interleaving
\* of get_real_data_loader, initialize_real_data and forecast lookups, load_all_data
\* runs at most once, every caller of get_real_data_loader is handed the same loader
\* object, and no lookup changes the loader.
IndexBuiltOnce ==
    [][/\ loads' <= 1
       /\ Cardinality(observed') <= 1
       /\ (last' # last /\ last' # Idle) => loader' = loader]_vars

InFlight == { t \in Tasks : Suspended(tasks[t]) }

\* C23: on one orchestrator at most one process_step body is executing at any time,
\* under every interleaving of process_step, advance_step and reset_workflow; while a
\* call is in flight its _processing flag stays set, so a call that arrives meanwhile
\* is rejected and runs no agent.
MutualExclusion ==
    /\ Cardinality(InFlight) <= 1
    /\ InFlight # {} => orch._processing

StepResults ==
    { "campaign_parameters", "advertiser_preferences", "audience_analysis",
      "campaign_structure", "forecasting_result" }

\* C26: once reset_workflow has returned the orchestrator holds no result of an
\* earlier run: a process_step that started before the reset never stores its step
\* result afterwards.
ResetIsolation ==
    [][\A t \in Tasks :
          (tasks[t].stale /\ tasks'[t].pc # tasks[t].pc)
              => \A f \in StepResults : orch'[f] = orch[f]]_vars

\* C27: a process_step call at FORECASTING that passes the busy guard and the
\* prerequisite gate (every earlier step processed with success) calls generate_forecast
\* with arguments the agent accepts and returns a FORECASTING result; forecasting_result
\* is then set.
ForecastingCompletes ==
    (response.step = FORECASTING /\ response.ret.exc \notin { "busy", "prerequisites" })
        => response.ret = WorkflowResult(FORECASTING)

StepOrder ==
    << CAMPAIGN_DATA, ADVERTISER_PREFERENCES, AUDIENCE_GENERATION, CAMPAIGN_GENERATION,
       FORECASTING, COMPLETE >>

Follows(a, b) == \E i \in 1..(Len(StepOrder) - 1) : StepOrder[i] = a /\ StepOrder[i + 1] = b

\* a step of the orchestrator that changes current_step: by reset_workflow (the debounce
\* clock is back at 0) or by advance_step (the debounce clock is set to now)
StepChanged == orch'.current_step # orch.current_step
ChangedByReset == StepChanged /\ orch'._last_advance_time = 0
ChangedByAdvance == StepChanged /\ orch'._last_advance_time = now
InProcessStep == response' # response \/ \E t \in Tasks : tasks'[t].pc # tasks[t].pc

\* current_step changes only by advance_step to the immediate successor or by
\* reset_workflow to CAMPAIGN_DATA, never in process_step and never out of COMPLETE
\* by advance_step
StepsInOrder ==
    /\ StepChanged => ChangedByReset \/ ChangedByAdvance
    /\ ChangedByReset => orch'.current_step = CAMPAIGN_DATA
    /\ ChangedByAdvance => Follows(orch.current_step, orch'.current_step)
    /\ InProcessStep => ~StepChanged
    /\ ChangedByAdvance => orch.current_step # COMPLETE

\* C24 (as claimed): linear step progression, and an advance_step issued less than 1
\* second after the previous accepted one leaves current_step unchanged.
LinearProgressionAlwaysDebounced ==
    [][/\ StepsInOrder
       /\ ChangedByAdvance => now - accepted.at >= 1]_vars

\* C24 (amended): linear step progression, and an advance_step issued less than 1
\* second after the previous accepted one, with no reset_workflow in between, leaves
\* current_step unchanged.
LinearProgression ==
    [][/\ StepsInOrder
       /\ ChangedByAdvance => (now - accepted.at >= 1 \/ accepted.reset)]_vars

\* the workflow was advanced step by step to COMPLETE, the last advance just now
AdvancedToComplete ==
    /\ orch.current_step = COMPLETE
    /\ accepted = [at |-> now, reset |-> FALSE]

\* the stored results the agent of a step is given
DependsOn(step) ==
    IF step = CAMPAIGN_DATA THEN {}
    ELSE IF step = ADVERTISER_PREFERENCES THEN { "campaign_parameters" }
    ELSE IF step = AUDIENCE_GENERATION THEN { "campaign_parameters", "advertiser_preferences" }
    ELSE IF step = CAMPAIGN_GENERATION
    THEN { "campaign_parameters", "advertiser_preferences", "audience_analysis" }
    ELSE { "campaign_parameters", "advertiser_preferences", "campaign_structure" }

PrerequisitesMet == \A f \in DependsOn(orch.current_step) : orch[f] # None

\* a process_step that ran to its end without giving up the event loop
AnsweredAtOnce == response' # response /\ tasks' = tasks

\* C25: an agent for step S is run only when the stored results of all steps S depends
\* on are present; a process_step call (not rejected as busy) at a step whose
\* prerequisites are not met raises the prerequisites error, runs no agent, leaves
\* current_step and every stored result unchanged, and leaves _processing False.
PrerequisiteGate ==
    [][/\ (\E t \in Tasks : tasks[t].pc = "idle" /\ tasks'[t].pc = "agent")
              => PrerequisitesMet
       /\ (AnsweredAtOnce /\ response'.ret.exc \in { NoExc, "failed" })
              => PrerequisitesMet
       /\ (AnsweredAtOnce /\ ~orch._processing /\ orch.current_step # COMPLETE
           /\ ~PrerequisitesMet)
              => /\ response'.ret = Raise("prerequisites")
                 /\ orch' = orch
                 /\ ~orch'._processing]_vars

\* process_step was refused at a step with an agent, and the orchestrator is free
GateRefused ==
    /\ response.ret = Raise("prerequisites")
    /\ response.step = orch.current_step
    /\ orch.current_step # COMPLETE
    /\ ~PrerequisitesMet
    /\ ~orch._processing
====
